---------------------------- MODULE Spec2Model ----------------------------
(***************************************************************************)
(* GitHub Issues -> Azure DevOps work items synchronisation engine.        *)
(*                                                                         *)
(*   SpecState : one call of StateMapper.getAdoState / getWorkItemType     *)
(*               (src/iterationCreator.js 350-606) or of find              *)
(*               (src/index-enhanced.js 1009-1058)                         *)
(*   SpecIter  : IterationCreator cache and creation                       *)
(*               (src/iterationCreator.js 10-336)                          *)
(*   Spec      : find / createWorkItem / handleSingleIssue /               *)
(*               handleBulkMigration (src/index-enhanced.js)               *)
(***************************************************************************)
EXTENDS Integers, Sequences, FiniteSets, TLC

VARIABLES
    \* ---- StateMapper calls (SpecState) ----
    smCall,        \* "pending" before the call, then the name of the method that ran
    smCfg,         \* index of the loaded state-mapping configuration
    smArgs,        \* arguments of the last call
    smResult       \* value the last call returned (or Throws)

VARIABLES
    \* ---- synchronisation workflows (Spec) ----
    workItems,     \* the work items of the Azure DevOps project, in id order
    lastCreated,   \* per (repository, number): id of the work item its latest cycle created (0: none)
    cycle,         \* summary of the record cycle that ran last, or NoCycle
    nCycles,       \* number of record cycles run so far
    bulk           \* the running handleBulkMigration call, or its end state

VARIABLES
    \* ---- one IterationCreator instance and the iteration store (SpecIter) ----
    iter,          \* the instance: connection, workClient, cacheLoaded, existingIterations
    itStore,       \* the iterations the Azure DevOps project holds, in creation order
    itPrev,        \* the createFromSprintInfo call before the last one, or NoCall
    itLast,        \* the last createFromSprintInfo call, or NoCall
    itCalls        \* number of calls made on the instance

smVars == <<smCall, smCfg, smArgs, smResult>>

itVars == <<iter, itStore, itPrev, itLast, itCalls>>

syncVars == <<workItems, lastCreated, cycle, nCycles, bulk>>

vars == <<smCall, smCfg, smArgs, smResult, workItems, lastCreated, cycle, nCycles, bulk,
          iter, itStore, itPrev, itLast, itCalls>>

(***************************************************************************)
(* JavaScript values.  Strings are modelled by TLA+ strings; the values    *)
(* that are not strings are the sentinels below.                           *)
(***************************************************************************)
Null      == "<null>"
Undefined == "<undefined>"
\* a function object inherited from Object.prototype (obj["constructor"])
ProtoFn   == "<function Object>"
\* the call ended by throwing (TypeError / ReferenceError)
Throws    == "<throws>"

NonStrings == {Null, Undefined, ProtoFn, Throws}

\* JS truthiness of a string-or-sentinel value
Truthy(v) == v \notin {Null, Undefined, ""}

\* property names every plain object inherits from Object.prototype
ProtoKeys == {"constructor"}

\* obj[key] is an own property
Own(obj, key) == key \in DOMAIN obj

\* obj[key] is truthy: an own property (all own values of the modelled tables
\* are non-empty) or an inherited one
Has(obj, key) == Own(obj, key) \/ key \in ProtoKeys

\* obj[key] for a table whose own values are strings
Get(obj, key) ==
    IF Own(obj, key) THEN obj[key]
    ELSE IF key \in ProtoKeys THEN ProtoFn
    ELSE Undefined

\* String.prototype.toLowerCase on the strings of the model
LowerTable ==
    [x \in {"Siwar", "Closed", "OPEN", "Task", "Bug", "Constructor",
             "Sprint 1", "SPRINT 1", "Sprint 2", "Alice", "ALICE", "Carol"} |->
        CASE x = "Siwar" -> "siwar"
          [] x = "Alice" -> "alice"
          [] x = "ALICE" -> "alice"
          [] x = "Carol" -> "carol"
          [] x = "Sprint 1" -> "sprint 1"
          [] x = "SPRINT 1" -> "sprint 1"
          [] x = "Sprint 2" -> "sprint 2"
          [] x = "Closed" -> "closed"
          [] x = "OPEN" -> "open"
          [] x = "Task" -> "task"
          [] x = "Bug" -> "bug"
          [] x = "Constructor" -> "constructor"]

toLowerCase(s) == IF s \in DOMAIN LowerTable THEN LowerTable[s] ELSE s


(***************************************************************************)
(* State-mapping configurations.  StateMapper's constructor loads the JSON *)
(* file named by STATE_MAPPING_CONFIG when it exists and getDefaultConfig  *)
(* otherwise; the configuration is read-only afterwards.                   *)
(***************************************************************************)
\* getDefaultConfig: the "open" sub-table of Epic
DefaultEpicOpen ==
    ("No status" :> "New") @@ ("Product Backlog" :> "New") @@
    ("Sprint Backlog" :> "New") @@ ("Ready" :> "New") @@
    ("In Progress" :> "In Progress") @@ ("In PR review" :> "In Progress") @@
    ("In Beta" :> "In Progress") @@ ("In Main" :> "In Progress") @@
    ("In Production" :> "Done")

\* getDefaultConfig: the "open" sub-table of Product Backlog Item and of Bug
DefaultBacklogOpen ==
    ("No status" :> "New") @@ ("Product Backlog" :> "New") @@
    ("Sprint Backlog" :> "Approved") @@ ("Ready" :> "Approved") @@
    ("In Progress" :> "Committed") @@ ("In PR review" :> "Committed") @@
    ("In Beta" :> "Committed") @@ ("In Main" :> "Committed") @@
    ("In Production" :> "Done")

\* getDefaultConfig: the "open" sub-table of Task
DefaultTaskOpen ==
    ("No status" :> "To Do") @@ ("Product Backlog" :> "To Do") @@
    ("Sprint Backlog" :> "To Do") @@ ("Ready" :> "To Do") @@
    ("In Progress" :> "In Progress") @@ ("In PR review" :> "In Progress") @@
    ("In Beta" :> "In Progress") @@ ("In Main" :> "In Progress") @@
    ("In Production" :> "Done")

\* getDefaultConfig: "closed": { "*": "Done" }
DefaultClosed == ("*" :> "Done")

\* a title prefix is the sequence of its characters
Chars_Epic        == <<"[", "E", "p", "i", "c", "]">>
Chars_Story       == <<"[", "S", "t", "o", "r", "y", "]">>
Chars_Request     == <<"[", "R", "e", "q", "u", "e", "s", "t", "]">>
Chars_Improvement == <<"[", "I", "M", "P", "R", "O", "V", "E", "M", "E", "N", "T", "]">>
Chars_Bug         == <<"[", "B", "u", "g", "]">>
Chars_default     == <<"d", "e", "f", "a", "u", "l", "t">>

\* getDefaultConfig().  workItemTypeMapping keeps the order of its keys
\* (Object.entries iterates string keys in insertion order).
getDefaultConfig ==
    [ defaultProject |-> "siwar",
      unmappedStatusFallback |-> ("open" :> "New") @@ ("closed" :> "Done"),
      workItemTypeMapping |->
        << <<Chars_Epic, "Epic">>,
           <<Chars_Story, "Product Backlog Item">>,
           <<Chars_Request, "Product Backlog Item">>,
           <<Chars_Improvement, "Product Backlog Item">>,
           <<Chars_Bug, "Bug">>,
           <<Chars_default, "Product Backlog Item">> >>,
      projects |->
        ("siwar" :>
           [ name |-> "siwar",
             adoAreaPath |-> "siwar\\siwar Team",   \* transliterated
             statusMappings |->
               ("Epic" :> (("open" :> DefaultEpicOpen) @@ ("closed" :> DefaultClosed))) @@
               ("Product Backlog Item" :>
                    (("open" :> DefaultBacklogOpen) @@ ("closed" :> DefaultClosed))) @@
               ("Bug" :> (("open" :> DefaultBacklogOpen) @@ ("closed" :> DefaultClosed))) @@
               ("Task" :> (("open" :> DefaultTaskOpen) @@ ("closed" :> DefaultClosed))) ]) ]

\* A configuration file: project "falak" is the default project; its closed
\* wildcard differs from the global fallback and sits beside an explicit
\* column entry; the Bug table spells the sentinel "No Status"; the Task
\* table has no sentinel and no "closed" sub-table; there is no Epic table;
\* the fallback table has no "open" entry; no "default" work item type.
Chars_Task == <<"[", "T", "a", "s", "k", "]">>
Chars_T    == <<"[", "T">>

FileConfigA ==
    [ defaultProject |-> "falak",
      unmappedStatusFallback |-> ("closed" :> "Resolved"),
      workItemTypeMapping |->
        << <<Chars_Task, "Task">>,
           <<Chars_T, "Test Case">>,
           <<Chars_Bug, "Issue">> >>,
      projects |->
        ("falak" :>
           [ name |-> "falak",
             adoAreaPath |-> "falak\\falak Team",
             statusMappings |->
               ("Bug" :>
                  (("open" :> (("Ready" :> "Approved") @@ ("No Status" :> "Proposed"))) @@
                   ("closed" :> (("*" :> "Closed") @@ ("In Production" :> "Released"))))) @@
               ("Task" :>
                  ("open" :> ("In Progress" :> "Doing"))) ]) @@
        ("siwar" :>
           [ name |-> "siwar",
             adoAreaPath |-> "",
             statusMappings |->
               ("Bug" :>
                  (("open" :> (("No status" :> "Triage") @@ ("No Status" :> "Proposed"))) @@
                   ("closed" :> ("In Production" :> "Released")))) ]) ]

\* A configuration file with an empty fallback table and a default project
\* written with a capital.
FileConfigB ==
    [ defaultProject |-> "Siwar",
      unmappedStatusFallback |-> <<>>,
      workItemTypeMapping |-> << <<Chars_default, "Issue">>, <<Chars_Epic, "Epic">> >>,
      projects |->
        ("siwar" :>
           [ name |-> "siwar",
             adoAreaPath |-> "siwar",
             statusMappings |->
               ("Task" :>
                  (("open" :> ("Ready" :> "To Do")) @@
                   ("closed" :> ("*" :> "Closed")))) ]) ]

ConfigIds == {"default", "fileA", "fileB"}

\* this.config of the StateMapper instance
Config(i) ==
    CASE i = "default" -> getDefaultConfig
      [] i = "fileA" -> FileConfigA
      [] i = "fileB" -> FileConfigB

(***************************************************************************)
(* StateMapper.getGlobalFallback(issueState)                               *)
(***************************************************************************)
getGlobalFallback(cfg, issueState) ==
    LET fallbacks == cfg.unmappedStatusFallback
        v == Get(fallbacks, issueState)
    IN IF Truthy(v) THEN v
       ELSE IF issueState = "closed" THEN "Done" ELSE "New"

(***************************************************************************)
(* StateMapper.getAdoState, the lookups inside the sub-table of one issue  *)
(* state: wildcard, status column, "No status" sentinel, global fallback.  *)
(***************************************************************************)
\* the same lookups with the status column tried before the wildcard
resolveInStateMap_ColumnFirst(cfg, stateMap, issueState, projectStatus) ==
    IF Truthy(Get(stateMap, projectStatus)) THEN Get(stateMap, projectStatus)
    ELSE IF Truthy(Get(stateMap, "*")) THEN Get(stateMap, "*")
    ELSE IF Truthy(Get(stateMap, "No status")) \/ Truthy(Get(stateMap, "No Status"))
    THEN IF Truthy(Get(stateMap, "No status")) THEN Get(stateMap, "No status")
         ELSE Get(stateMap, "No Status")
    ELSE getGlobalFallback(cfg, issueState)

resolveInStateMap(cfg, stateMap, issueState, projectStatus) ==
    IF Truthy(Get(stateMap, "*")) THEN Get(stateMap, "*")
    ELSE IF Truthy(Get(stateMap, projectStatus)) THEN Get(stateMap, projectStatus)
    ELSE IF Truthy(Get(stateMap, "No status")) \/ Truthy(Get(stateMap, "No Status"))
    THEN IF Truthy(Get(stateMap, "No status")) THEN Get(stateMap, "No status")
         ELSE Get(stateMap, "No Status")
    ELSE getGlobalFallback(cfg, issueState)

\* issueState = (issueState || 'open').toLowerCase()
normIssueState(issueState) ==
    toLowerCase(IF Truthy(issueState) THEN issueState ELSE "open")

\* projectName = (projectName || this.config.defaultProject).toLowerCase()
normProjectName(cfg, projectName) ==
    toLowerCase(IF Truthy(projectName) THEN projectName ELSE cfg.defaultProject)

(***************************************************************************)
(* StateMapper.getAdoState(workItemType, issueState, projectName,          *)
(* projectStatus).  The result is the returned value, or Throws when the   *)
(* call ends in a TypeError.                                               *)
(***************************************************************************)
getAdoState(cfg, workItemType, issueState0, projectName0, projectStatus) ==
    LET issueState  == normIssueState(issueState0)
        projectName == normProjectName(cfg, projectName0)
    IN
    IF ~Truthy(projectStatus) \/ ~Has(cfg.projects, projectName)
    THEN getGlobalFallback(cfg, issueState)
    ELSE IF ~Own(cfg.projects, projectName)
    \* project is the inherited function: project.statusMappings is
    \* undefined and undefined[workItemType] throws
    THEN Throws
    ELSE
    \* work item types and issue states of the model are not names of
    \* inherited properties: a truthy lookup by them is an own property
    LET statusMappingsAll == cfg.projects[projectName].statusMappings IN
    IF ~Own(statusMappingsAll, workItemType)
    THEN getGlobalFallback(cfg, issueState)
    ELSE
    LET statusMappings == statusMappingsAll[workItemType] IN
    IF ~Own(statusMappings, issueState)
    THEN getGlobalFallback(cfg, issueState)
    ELSE resolveInStateMap(cfg, statusMappings[issueState], issueState, projectStatus)

(***************************************************************************)
(* StateMapper.getWorkItemType(issueTitle, labels).  A title is the        *)
(* sequence of its characters.                                             *)
(***************************************************************************)
UpperLetters == <<"A", "B", "C", "D", "E", "F", "G", "H", "I", "J", "K", "L", "M",
                  "N", "O", "P", "Q", "R", "S", "T", "U", "V", "W", "X", "Y", "Z">>
LowerLetters == <<"a", "b", "c", "d", "e", "f", "g", "h", "i", "j", "k", "l", "m",
                  "n", "o", "p", "q", "r", "s", "t", "u", "v", "w", "x", "y", "z">>

\* case folding of one character (the regular expression's i flag)
lowerChar(c) ==
    IF \E k \in 1..Len(UpperLetters) : UpperLetters[k] = c
    THEN LowerLetters[CHOOSE k \in 1..Len(UpperLetters) : UpperLetters[k] = c]
    ELSE c

\* new RegExp(`^\\${prefix}`, 'i').test(issueTitle): the first character of
\* the prefix is escaped, the others stand for themselves (the prefixes of
\* the modelled configurations are a bracket followed by letters and "]",
\* none of which is special after the escape)
prefixRegexTest(prefix, issueTitle) ==
    /\ Len(prefix) <= Len(issueTitle)
    /\ \A k \in 1..Len(prefix) : lowerChar(issueTitle[k]) = lowerChar(prefix[k])

\* the label table inside getWorkItemType
labelMap ==
    ("epic" :> "Epic") @@ ("bug" :> "Bug") @@
    ("user-story" :> "Product Backlog Item") @@ ("task" :> "Task")

MinOf(S) == CHOOSE x \in S : \A y \in S : x <= y

getWorkItemType(cfg, issueTitle, labels) ==
    LET typeMapping == cfg.workItemTypeMapping
        hits == {k \in 1..Len(typeMapping) :
                    /\ typeMapping[k][1] # Chars_default
                    /\ prefixRegexTest(typeMapping[k][1], issueTitle)}
        labelHits == {k \in 1..Len(labels) :
                        Truthy(Get(labelMap, toLowerCase(labels[k])))}
        defaults == {k \in 1..Len(typeMapping) : typeMapping[k][1] = Chars_default}
    IN IF hits # {} THEN typeMapping[MinOf(hits)][2]
       ELSE IF labelHits # {} THEN Get(labelMap, toLowerCase(labels[MinOf(labelHits)]))
       ELSE IF defaults # {} THEN typeMapping[MinOf(defaults)][2]
       ELSE "Product Backlog Item"

(***************************************************************************)
(* IterationCreator (src/iterationCreator.js 10-336).                      *)
(* A Date is a record [year, month, day] in the local time zone, month     *)
(* 0-based as in JavaScript; NoDate is null.  An iteration is a record     *)
(* [id, name, path, startDate, finishDate]; NoIteration is null.           *)
(***************************************************************************)
NoDate == [year |-> 0, month |-> 0, day |-> 0]

DaysInMonth(year, month) ==
    IF month = 1
    THEN (IF year % 4 = 0 /\ (year % 100 # 0 \/ year % 400 = 0) THEN 29 ELSE 28)
    ELSE IF month \in {3, 5, 8, 10} THEN 30 ELSE 31

\* the Date that new Date(year, month, day) and setDate denote: months and
\* days out of range carry over
RECURSIVE NewDate(_, _, _)
NewDate(year, month, day) ==
    IF month > 11 THEN NewDate(year + 1, month - 12, day)
    ELSE IF month < 0 THEN NewDate(year - 1, month + 12, day)
    ELSE IF day > DaysInMonth(year, month)
    THEN NewDate(year, month + 1, day - DaysInMonth(year, month))
    ELSE IF day < 1
    THEN (IF month = 0 THEN NewDate(year - 1, 11, day + 31)
          ELSE NewDate(year, month - 1, day + DaysInMonth(year, month - 1)))
    ELSE [year |-> year, month |-> month, day |-> day]

\* date.setDate(date.getDate() + days)
AddDays(date, days) == NewDate(date.year, date.month, date.day + days)

\* a formatted date `${year}-${month}-${day}`: the three numbers
NoDateString == <<0, 0, 0>>

NoIteration ==
    [id |-> 0, name |-> "", path |-> <<>>, startDate |-> NoDateString,
     finishDate |-> NoDateString]

\* the keys of the existingIterations map the model uses
CacheKeys == {"sprint 1", "sprint 2"}

\* new IterationCreator(adoToken, organization, project)
NewIterationCreator ==
    [ connection |-> FALSE, workClient |-> FALSE, cacheLoaded |-> FALSE,
      existingIterations |-> [k \in CacheKeys |-> [has |-> FALSE, value |-> NoIteration]],
      listCalls |-> 0 ]

\* what a call returned: an iteration, null, a boolean, or it threw
Returned(kind, value) == [kind |-> kind, value |-> value]
NoCall == [method |-> "none", name |-> "", result |-> Returned("none", NoIteration),
           creates |-> 0]

IterIdle ==
    /\ iter = NewIterationCreator
    /\ itStore = <<>>
    /\ itPrev = NoCall
    /\ itLast = NoCall
    /\ itCalls = 0

\* what the Azure DevOps client does during one call: getWorkApi,
\* the getTeamIterations calls in order (a call makes a second one only
\* after a failed first), postTeamIteration ("null": resolves without an
\* iteration)
IterIO ==
    [ init : {"ok", "throws"},
      load : {<<"ok", "ok">>, <<"throws", "ok">>, <<"throws", "throws">>},
      post : {"ok", "throws", "null"} ]

\* initialize(): the connection is stored before getWorkApi is awaited
initialize(it, io) ==
    IF it.connection THEN [it |-> it, threw |-> FALSE]
    ELSE IF io.init = "throws"
    THEN [it |-> [it EXCEPT !.connection = TRUE], threw |-> TRUE]
    ELSE [it |-> [it EXCEPT !.connection = TRUE, !.workClient = TRUE], threw |-> FALSE]

\* iterations.forEach(iteration => existingIterations.set(name.toLowerCase(), iteration))
RECURSIVE setAll(_, _)
setAll(cache, iterations) ==
    IF Len(iterations) = 0 THEN cache
    ELSE setAll([cache EXCEPT ![toLowerCase(Head(iterations).name)] =
                                    [has |-> TRUE, value |-> Head(iterations)]],
                Tail(iterations))

\* loadExistingIterations() listing the iterations whether or not the cache
\* is loaded
loadExistingIterations_AlwaysLists(it, store, io, attempt) ==
    LET i == initialize(it, io) IN
    IF i.threw THEN i
    ELSE IF ~i.it.workClient THEN [it |-> i.it, threw |-> FALSE]
    ELSE IF io.load[attempt] = "throws"
    THEN [it |-> [i.it EXCEPT !.listCalls = @ + 1], threw |-> FALSE]
    ELSE [it |-> [i.it EXCEPT !.existingIterations = setAll(@, store),
                              !.cacheLoaded = TRUE, !.listCalls = @ + 1],
          threw |-> FALSE]

\* loadExistingIterations(); attempt is the number of the getTeamIterations
\* call within the running call.  Without a workClient the try block ends
\* in a TypeError, which it catches, before getTeamIterations is invoked.
\* listCalls counts the invocations of getTeamIterations on the instance.
loadExistingIterations(it, store, io, attempt) ==
    IF it.cacheLoaded THEN [it |-> it, threw |-> FALSE]
    ELSE LET i == initialize(it, io) IN
         IF i.threw THEN i
         ELSE IF ~i.it.workClient THEN [it |-> i.it, threw |-> FALSE]
         ELSE IF io.load[attempt] = "throws"
         THEN [it |-> [i.it EXCEPT !.listCalls = @ + 1], threw |-> FALSE]
         ELSE [it |-> [i.it EXCEPT !.existingIterations = setAll(@, store),
                                   !.cacheLoaded = TRUE, !.listCalls = @ + 1],
               threw |-> FALSE]

\* the result of a call that left the store alone
IterResult(it, store, result, creates) ==
    [it |-> it, store |-> store, result |-> result, creates |-> creates]

\* iterationExists comparing the name as written with the keys of the cache
iterationExists_CaseSensitive(it, store, iterationName, io) ==
    LET l == loadExistingIterations(it, store, io, 1) IN
    IF l.threw THEN IterResult(l.it, store, Returned("throws", NoIteration), 0)
    ELSE IterResult(l.it, store,
            Returned(IF /\ iterationName \in CacheKeys
                        /\ l.it.existingIterations[iterationName].has
                     THEN "true" ELSE "false", NoIteration), 0)

\* iterationExists(iterationName)
iterationExists(it, store, iterationName, io) ==
    LET l == loadExistingIterations(it, store, io, 1) IN
    IF l.threw THEN IterResult(l.it, store, Returned("throws", NoIteration), 0)
    ELSE IterResult(l.it, store,
            Returned(IF l.it.existingIterations[toLowerCase(iterationName)].has
                     THEN "true" ELSE "false", NoIteration), 0)

\* existingIterations.get(key) || null
cacheGet(it, key) ==
    IF it.existingIterations[key].has /\ it.existingIterations[key].value # NoIteration
    THEN Returned("iteration", it.existingIterations[key].value)
    ELSE Returned("null", NoIteration)

\* getIteration(iterationName), its load being getTeamIterations call number attempt
getIteration(it, store, iterationName, io, attempt) ==
    LET l == loadExistingIterations(it, store, io, attempt) IN
    IF l.threw THEN IterResult(l.it, store, Returned("throws", NoIteration), 0)
    ELSE IterResult(l.it, store, cacheGet(l.it, toLowerCase(iterationName)), 0)

\* formatDate(date): year, month + 1 and day
formatDate(date) == <<date.year, date.month + 1, date.day>>

\* the iteration postTeamIteration resolves with
createdIteration(store, iterationName, startDate, endDate) ==
    [ id |-> Len(store) + 1, name |-> iterationName,
      path |-> <<"project", iterationName>>,
      startDate |-> IF startDate # NoDate THEN formatDate(startDate) ELSE NoDateString,
      finishDate |-> IF endDate # NoDate THEN formatDate(endDate) ELSE NoDateString ]

\* the project holds an iteration of that name (names of iterations are
\* unique in the project, letter case ignored)
StoreHolds(store, iterationName) ==
    \E k \in 1..Len(store) : toLowerCase(store[k].name) = toLowerCase(iterationName)

\* createIteration posting without the check for an existing iteration
createIteration_NoExistenceCheck(it, store, iterationName, startDate, endDate, io) ==
    LET i   == initialize(it, io)
        e   == iterationExists(i.it, store, iterationName, io)
        key == toLowerCase(iterationName)
        created == createdIteration(store, iterationName, startDate, endDate)
    IN
    IF i.threw THEN IterResult(i.it, store, Returned("throws", NoIteration), 0)
    ELSE IF ~e.it.workClient
    THEN IterResult(e.it, store, Returned("null", NoIteration), 0)
    ELSE IF io.post = "throws" \/ StoreHolds(store, iterationName)
    THEN IterResult(e.it, store, Returned("null", NoIteration), 1)
    ELSE IF io.post = "null"
    THEN IterResult([e.it EXCEPT !.existingIterations[key] =
                                        [has |-> TRUE, value |-> NoIteration]],
                    store, Returned("null", NoIteration), 1)
    ELSE [ it |-> [e.it EXCEPT !.existingIterations[key] =
                                        [has |-> TRUE, value |-> created]],
           store |-> Append(store, created),
           result |-> Returned("iteration", created), creates |-> 1 ]

\* createIteration(iterationName, startDate, endDate)
createIteration(it, store, iterationName, startDate, endDate, io) ==
    LET i   == initialize(it, io)
        e   == iterationExists(i.it, store, iterationName, io)
        key == toLowerCase(iterationName)
        created == createdIteration(store, iterationName, startDate, endDate)
    IN
    IF i.threw THEN IterResult(i.it, store, Returned("throws", NoIteration), 0)
    ELSE IF e.result.kind = "true"
    THEN getIteration(e.it, store, iterationName, io,
                      IF io.load[1] = "throws" THEN 2 ELSE 1)
    ELSE IF ~e.it.workClient
    THEN IterResult(e.it, store, Returned("null", NoIteration), 0)
    ELSE IF io.post = "throws" \/ StoreHolds(store, iterationName)
    THEN IterResult(e.it, store, Returned("null", NoIteration), 1)
    ELSE IF io.post = "null"
    THEN IterResult([e.it EXCEPT !.existingIterations[key] =
                                        [has |-> TRUE, value |-> NoIteration]],
                    store, Returned("null", NoIteration), 1)
    ELSE [ it |-> [e.it EXCEPT !.existingIterations[key] =
                                        [has |-> TRUE, value |-> created]],
           store |-> Append(store, created),
           result |-> Returned("iteration", created), creates |-> 1 ]

\* createFromSprintInfo's default for defaultDuration
defaultDuration == 14

\* parseSprintDates(sprintInfo.name) returned null
NoParse == [startDate |-> NoDate, endDate |-> NoDate]

(***************************************************************************)
(* IterationCreator.parseSprintDates: sprint names are sequences of        *)
(* characters, the three regular expressions are matched by a backtracking *)
(* matcher as the JavaScript engine does (leftmost start, greedy           *)
(* quantifiers).                                                           *)
(***************************************************************************)
Digits == <<"0", "1", "2", "3", "4", "5", "6", "7", "8", "9">>

\* the character classes \d, \w, \s
ClassD == {Digits[k] : k \in 1..Len(Digits)}
ClassW == ClassD \cup {UpperLetters[k] : k \in 1..Len(UpperLetters)}
                 \cup {LowerLetters[k] : k \in 1..Len(LowerLetters)} \cup {"_"}
ClassS == {" "}

\* one element of a pattern: a class repeated min..max times (max 0: no
\* upper limit), greedy
Rep(cls, min, max) == [cls |-> cls, min |-> min, max |-> max]
Lit(c) == Rep({c}, 1, 1)

\* /(\w+)\s+(\d+)\s*-\s*(\w+)\s+(\d+)/i
PatternMonthName ==
    << Rep(ClassW, 1, 0), Rep(ClassS, 1, 0), Rep(ClassD, 1, 0), Rep(ClassS, 0, 0),
       Lit("-"), Rep(ClassS, 0, 0), Rep(ClassW, 1, 0), Rep(ClassS, 1, 0),
       Rep(ClassD, 1, 0) >>
GroupsMonthName == <<1, 3, 7, 9>>

\* /(\d+)\/(\d+)\s*-\s*(\d+)\/(\d+)/
PatternNumeric ==
    << Rep(ClassD, 1, 0), Lit("/"), Rep(ClassD, 1, 0), Rep(ClassS, 0, 0), Lit("-"),
       Rep(ClassS, 0, 0), Rep(ClassD, 1, 0), Lit("/"), Rep(ClassD, 1, 0) >>
GroupsNumeric == <<1, 3, 7, 9>>

\* /(\d{4})-(\d{2})-(\d{2})\s+to\s+(\d{4})-(\d{2})-(\d{2})/
PatternIso ==
    << Rep(ClassD, 4, 4), Lit("-"), Rep(ClassD, 2, 2), Lit("-"), Rep(ClassD, 2, 2),
       Rep(ClassS, 1, 0), Lit("t"), Lit("o"), Rep(ClassS, 1, 0),
       Rep(ClassD, 4, 4), Lit("-"), Rep(ClassD, 2, 2), Lit("-"), Rep(ClassD, 2, 2) >>
GroupsIso == <<1, 3, 5, 10, 12, 14>>

\* the patterns array, in order, with the elements that are groups
patterns ==
    << [pat |-> PatternMonthName, groups |-> GroupsMonthName],
       [pat |-> PatternNumeric, groups |-> GroupsNumeric],
       [pat |-> PatternIso, groups |-> GroupsIso] >>

\* number of characters of class cls from position pos on, at most cap (cap 0:
\* no limit)
RECURSIVE RunLen(_, _, _, _)
RunLen(s, pos, cls, cap) ==
    IF pos > Len(s) \/ s[pos] \notin cls THEN 0
    ELSE IF cap = 1 THEN 1
    ELSE 1 + RunLen(s, pos + 1, cls, IF cap = 0 THEN 0 ELSE cap - 1)

NoMatch == [ok |-> FALSE, ends |-> <<>>]

\* the elements k.. of pat match s from position pos on; ends: the position
\* after each of these elements.  An element takes as many characters as it
\* can and gives them back one at a time while the rest fails.
RECURSIVE MatchAt(_, _, _, _)
RECURSIVE TryCount(_, _, _, _, _)
MatchAt(pat, k, s, pos) ==
    IF k > Len(pat) THEN [ok |-> TRUE, ends |-> <<>>]
    ELSE TryCount(pat, k, s, pos, RunLen(s, pos, pat[k].cls, pat[k].max))

TryCount(pat, k, s, pos, count) ==
    IF count < pat[k].min THEN NoMatch
    ELSE LET rest == MatchAt(pat, k + 1, s, pos + count) IN
         IF rest.ok THEN [ok |-> TRUE, ends |-> <<pos + count>> \o rest.ends]
         ELSE TryCount(pat, k, s, pos, count - 1)

\* sprintName.match(pattern): null, or the texts of the groups
NoGroups == [ok |-> FALSE, groups |-> <<>>]

RECURSIVE MatchFrom(_, _, _)
MatchFrom(p, s, start) ==
    IF start > Len(s) + 1 THEN NoGroups
    ELSE LET m == MatchAt(p.pat, 1, s, start)
             from(k) == IF k = 1 THEN start ELSE m.ends[k - 1]
         IN IF m.ok
            THEN [ok |-> TRUE,
                  groups |-> [g \in 1..Len(p.groups) |->
                                SubSeq(s, from(p.groups[g]), m.ends[p.groups[g]] - 1)]]
            ELSE MatchFrom(p, s, start + 1)

match(s, p) == MatchFrom(p, s, 1)

(***************************************************************************)
(* JavaScript numbers: [nan, n]; the inherited function converts to NaN    *)
(***************************************************************************)
Num(n) == [nan |-> FALSE, n |-> n]
NaN == [nan |-> TRUE, n |-> 0]
FnAsNumber == [nan |-> TRUE, n |-> 1]

DigitValue(c) == (CHOOSE k \in 1..Len(Digits) : Digits[k] = c) - 1

\* the value of a run of digits
RECURSIVE DigitsValue(_)
DigitsValue(s) ==
    IF Len(s) = 0 THEN 0
    ELSE 10 * DigitsValue(SubSeq(s, 1, Len(s) - 1)) + DigitValue(s[Len(s)])

\* parseInt(str): the leading digits, NaN without any
parseInt(str) ==
    IF RunLen(str, 1, ClassD, 0) = 0 THEN NaN
    ELSE Num(DigitsValue(SubSeq(str, 1, RunLen(str, 1, ClassD, 0))))

\* isNaN(str) for a text of word characters: the texts of the model are
\* numbers exactly when they are runs of digits
isNaN(str) == RunLen(str, 1, ClassD, 0) # Len(str)

\* Number(str) of a text of word characters
ToNumber(str) == IF isNaN(str) THEN NaN ELSE Num(DigitsValue(str))

Minus(x, k) == IF x.nan THEN x ELSE Num(x.n - k)

\* an Invalid Date
InvalidDate == [year |-> 0, month |-> 0, day |-> -1]

\* new Date(year, month, day) for JavaScript numbers
DateOf(year, month, day) ==
    IF year.nan \/ month.nan \/ day.nan THEN InvalidDate
    ELSE NewDate(year.n, month.n, day.n)

(***************************************************************************)
(* parseMonth / extractDatesFromMatch / parseSprintDates                   *)
(***************************************************************************)
\* the months table
months ==
    << <<<<"j", "a", "n">>, 0>>,
       <<<<"j", "a", "n", "u", "a", "r", "y">>, 0>>,
       <<<<"f", "e", "b">>, 1>>,
       <<<<"f", "e", "b", "r", "u", "a", "r", "y">>, 1>>,
       <<<<"m", "a", "r">>, 2>>,
       <<<<"m", "a", "r", "c", "h">>, 2>>,
       <<<<"a", "p", "r">>, 3>>,
       <<<<"a", "p", "r", "i", "l">>, 3>>,
       <<<<"m", "a", "y">>, 4>>,
       <<<<"j", "u", "n">>, 5>>,
       <<<<"j", "u", "n", "e">>, 5>>,
       <<<<"j", "u", "l">>, 6>>,
       <<<<"j", "u", "l", "y">>, 6>>,
       <<<<"a", "u", "g">>, 7>>,
       <<<<"a", "u", "g", "u", "s", "t">>, 7>>,
       <<<<"s", "e", "p">>, 8>>,
       <<<<"s", "e", "p", "t", "e", "m", "b", "e", "r">>, 8>>,
       <<<<"o", "c", "t">>, 9>>,
       <<<<"o", "c", "t", "o", "b", "e", "r">>, 9>>,
       <<<<"n", "o", "v">>, 10>>,
       <<<<"n", "o", "v", "e", "m", "b", "e", "r">>, 10>>,
       <<<<"d", "e", "c">>, 11>>,
       <<<<"d", "e", "c", "e", "m", "b", "e", "r">>, 11>> >>

lowerChars(s) == [k \in 1..Len(s) |-> lowerChar(s[k])]

\* the names every object inherits (months[name] is then a function)
ProtoKeyChars == { <<"c", "o", "n", "s", "t", "r", "u", "c", "t", "o", "r">> }

\* parseMonth(monthStr): months[monthStr.toLowerCase()] || 0
parseMonth(monthStr) ==
    LET key == lowerChars(monthStr)
        own == {k \in 1..Len(months) : months[k][1] = key}
    IN IF own # {} THEN Num(months[CHOOSE k \in own : TRUE][2])
       ELSE IF key \in ProtoKeyChars THEN FnAsNumber
       ELSE Num(0)

Dates(startDate, endDate) == [startDate |-> startDate, endDate |-> endDate]

\* extractDatesFromMatch with the numeric months used as 0-based as written
extractDatesFromMatch_MonthAsWritten(groups, year) ==
    IF isNaN(groups[1])
    THEN Dates(DateOf(Num(year), parseMonth(groups[1]), parseInt(groups[2])),
               DateOf(Num(year), parseMonth(groups[3]), parseInt(groups[4])))
    ELSE IF Len(groups) = 4
    THEN Dates(DateOf(Num(year), parseInt(groups[1]), parseInt(groups[2])),
               DateOf(Num(year), parseInt(groups[3]), parseInt(groups[4])))
    ELSE IF Len(groups) = 6
    THEN Dates(DateOf(ToNumber(groups[1]), parseInt(groups[2]), ToNumber(groups[3])),
               DateOf(ToNumber(groups[4]), parseInt(groups[5]), ToNumber(groups[6])))
    ELSE NoParse

\* extractDatesFromMatch(match, year); groups is match without match[0], so
\* match.length is Len(groups) + 1
extractDatesFromMatch(groups, year) ==
    IF isNaN(groups[1])
    THEN Dates(DateOf(Num(year), parseMonth(groups[1]), parseInt(groups[2])),
               DateOf(Num(year), parseMonth(groups[3]), parseInt(groups[4])))
    ELSE IF Len(groups) = 4
    THEN Dates(DateOf(Num(year), Minus(parseInt(groups[1]), 1), parseInt(groups[2])),
               DateOf(Num(year), Minus(parseInt(groups[3]), 1), parseInt(groups[4])))
    ELSE IF Len(groups) = 6
    THEN Dates(DateOf(ToNumber(groups[1]), Minus(parseInt(groups[2]), 1),
                      ToNumber(groups[3])),
               DateOf(ToNumber(groups[4]), Minus(parseInt(groups[5]), 1),
                      ToNumber(groups[6])))
    ELSE NoParse

\* parseSprintDates(sprintName, year): the first pattern that matches
RECURSIVE parseFrom(_, _, _)
parseFrom(sprintName, year, k) ==
    IF k > Len(patterns) THEN NoParse
    ELSE IF match(sprintName, patterns[k]).ok
    THEN extractDatesFromMatch(match(sprintName, patterns[k]).groups, year)
    ELSE parseFrom(sprintName, year, k + 1)

parseSprintDates(sprintName, year) == parseFrom(sprintName, year, 1)

\* no sprint information
NoSprintInfo == [name |-> Null, startDate |-> NoDate, duration |-> 0]

\* createFromSprintInfo(sprintInfo): the dates it passes on.  parsed is
\* what parseSprintDates(sprintInfo.name) returned, now is new Date().
sprintDates(sprintInfo, parsed, now) ==
    LET start0 == sprintInfo.startDate
        step1  == IF start0 # NoDate /\ sprintInfo.duration # 0
                  THEN [startDate |-> start0,
                        endDate |-> AddDays(start0, sprintInfo.duration)]
                  ELSE IF start0 = NoDate /\ parsed # NoParse
                  THEN parsed
                  ELSE [startDate |-> start0, endDate |-> NoDate]
    IN IF step1.startDate = NoDate
       THEN [startDate |-> now, endDate |-> AddDays(now, defaultDuration)]
       ELSE step1

createFromSprintInfo(it, store, sprintInfo, parsed, now, io) ==
    IF sprintInfo = NoSprintInfo \/ ~Truthy(sprintInfo.name)
    THEN IterResult(it, store, Returned("null", NoIteration), 0)
    ELSE createIteration(it, store, sprintInfo.name,
                         sprintDates(sprintInfo, parsed, now).startDate,
                         sprintDates(sprintInfo, parsed, now).endDate, io)

(***************************************************************************)
(* The synchronisation workflows: source records, the target project       *)
(***************************************************************************)
MaxCycles == 2

\* the (repository, issue number) pairs of the model
\* (issues 1 and 2 of repository "web")
Pairs == { <<"web", 1>>, <<"web", 2>> }
NoPair == <<"", 0>>

\* a work item title `${vm.title} (GitHub Issue #${vm.number})`
TitleWithMarker(title, number) == [text |-> title, number |-> number]

\* no work item (the id 0 is never assigned by the target project)
NoWorkItem ==
    [id |-> 0, title |-> TitleWithMarker(<<>>, 0), description |-> <<>>,
     tags |-> <<>>, state |-> "", wit |-> ""]

\* the state of the workflows before any run
\* the summary block has not been printed
NoSummary ==
    [printed |-> FALSE, successful |-> 0, failed |-> 0, total |-> 0,
     failedIssues |-> <<>>, logged |-> <<>>]

\*   phase: "idle", "fetching" (the pagination loop), "records" (the loop
\*     over the issues), "done" (returned after the summary) or "aborted"
\*     (ended by a thrown error)
\*   listing, page: what the repository lists and the page to fetch next
\*   issues, next: the issues collected and the index of the next one
\*   processed: the loop bodies run so far, as [number, title, ended]
\*   delayed: delay(config.rateLimiting.delayBetweenCalls) was awaited after
\*     the last page fetch or loop body
\*   inFlight: the calls of the loop bodies that have not settled
\*   inFlightAtStart: the most calls that were in flight when a call of a
\*     loop body started
NotRunning ==
    [phase |-> "idle", continueOnError |-> TRUE, repo |-> "", listing |-> <<>>,
     page |-> 1, issues |-> <<>>, next |-> 1, processed |-> <<>>, delayed |-> FALSE,
     inFlight |-> 0, inFlightAtStart |-> 0,
     successCount |-> 0, failCount |-> 0, failedIssues |-> <<>>,
     summary |-> NoSummary]

\* no cycle has run
NoCycle ==
    [ pair |-> NoPair, mode |-> "none", find |-> "none",
      io |-> [connect |-> "ok", query |-> "ok", fetch |-> "ok"],
      nMatches |-> 0, foundId |-> 0, createIssued |-> FALSE, created |-> 0,
      prevCreated |-> 0, writes |-> <<>>, outcome |-> "none" ]

SyncIdle ==
    /\ workItems = <<>>
    /\ lastCreated = [p \in Pairs |-> 0]
    /\ cycle = NoCycle
    /\ nCycles = 0
    /\ bulk = NotRunning

\* x is an element of the sequence s
InSeq(x, s) == \E k \in 1..Len(s) : s[k] = x

(***************************************************************************)
(* find(vm): the WIQL query and the three results of the lookup.           *)
(* io names what the Azure DevOps client did: io.connect, io.query and     *)
(* io.fetch are "ok" or "throws".                                          *)
(***************************************************************************)
\* the WHERE clause of the query, for one work item
wiqlMatches(w, vm) ==
    /\ w.title.number = vm.number
    /\ InSeq("GitHub Issue", w.tags)
    /\ InSeq(vm.repository, w.tags)

\* queryResult.workItems of a query that succeeded, in id order
queryByWiql(items, vm) == SelectSeq(items, LAMBDA w : wiqlMatches(w, vm))

\* the client either fails at one of its three calls or at none
FindIO ==
    { [connect |-> "throws", query |-> "ok", fetch |-> "ok"],
      [connect |-> "ok", query |-> "throws", fetch |-> "ok"],
      [connect |-> "ok", query |-> "ok", fetch |-> "throws"],
      [connect |-> "ok", query |-> "ok", fetch |-> "ok"] }

\* find with a query failure reported as "no work item"
find_ErrorAsNull(items, vm, io) ==
    IF io.connect = "throws" THEN [kind |-> "error", workItem |-> NoWorkItem]
    ELSE IF io.query = "throws" THEN [kind |-> "null", workItem |-> NoWorkItem]
    ELSE IF Len(queryByWiql(items, vm)) = 0 THEN [kind |-> "null", workItem |-> NoWorkItem]
    ELSE IF io.fetch = "throws" THEN [kind |-> "error", workItem |-> NoWorkItem]
    ELSE [kind |-> "found", workItem |-> queryByWiql(items, vm)[1]]

\* kind "error" is the value -1, kind "null" is null, kind "found" carries
\* the work item fetched for the first reference of the query result
find(items, vm, io) ==
    IF io.connect = "throws" THEN [kind |-> "error", workItem |-> NoWorkItem]
    ELSE IF io.query = "throws" THEN [kind |-> "error", workItem |-> NoWorkItem]
    ELSE IF Len(queryByWiql(items, vm)) = 0 THEN [kind |-> "null", workItem |-> NoWorkItem]
    ELSE IF io.fetch = "throws" THEN [kind |-> "error", workItem |-> NoWorkItem]
    ELSE [kind |-> "found", workItem |-> queryByWiql(items, vm)[1]]

(***************************************************************************)
(* config.js: the feature flags and label settings the workflows read      *)
(***************************************************************************)
features_syncTitle         == TRUE
features_syncDescription   == TRUE
features_syncState         == TRUE
features_syncLabels        == TRUE
features_syncProjectStatus == TRUE
features_syncAssignees     == TRUE
features_syncDates         == TRUE
features_syncComments      == TRUE

\* config.features as the configuration file sets them
config_features ==
    [ syncTitle |-> features_syncTitle, syncDescription |-> features_syncDescription,
      syncState |-> features_syncState, syncLabels |-> features_syncLabels,
      syncAssignees |-> features_syncAssignees, syncDates |-> features_syncDates,
      syncComments |-> features_syncComments,
      syncProjectStatus |-> features_syncProjectStatus ]
labels_allAsTags           == TRUE
\* config.labels.priorityLabels (the two Arabic labels transliterated; the
\* numbers 1 and 4 as their decimal text)
labels_priorityLabels ==
    ("critical-ar" :> "1") @@ ("blocker" :> "1") @@ ("high-priority" :> "1") @@
    ("deferred-ar" :> "4")

\* `GH-${vm.number}`
GhTag(number) == CASE number = 1 -> "GH-1" [] number = 2 -> "GH-2" [] OTHER -> "GH-?"

\* showdown's makeHtml(vm.body)
makeHtml(body) == <<"html", body>>

(***************************************************************************)
(* StateMapper.getAreaPath(projectName): the area path of the project, the *)
(* lowercased project name when the project has none                       *)
(***************************************************************************)
getAreaPath(config, projectName) ==
    LET name == toLowerCase(IF Truthy(projectName) THEN projectName
                            ELSE config.defaultProject)
    IN  IF Own(config.projects, name) /\ Truthy(config.projects[name].adoAreaPath)
        THEN config.projects[name].adoAreaPath
        ELSE name

(***************************************************************************)
(* UserMapper: the Map from lowercased GitHub login to ADO identity, here  *)
(* after loadFromJsonString('[["Alice","alice@ado"],["Dave","dave@ado"],   *)
(* ["carol",""]]')                                                         *)
(***************************************************************************)
userMapping == ("alice" :> "alice@ado") @@ ("dave" :> "dave@ado") @@ ("carol" :> "")

\* Map.prototype.get: own entries only
mapGet(map, key) == IF key \in DOMAIN map THEN map[key] ELSE Undefined

getAdoUser(githubUsername) ==
    IF ~Truthy(githubUsername) THEN Null
    ELSE IF Truthy(mapGet(userMapping, toLowerCase(githubUsername)))
    THEN mapGet(userMapping, toLowerCase(githubUsername))
    ELSE Null

getAdoUsers(githubUsernames) ==
    SelectSeq([k \in 1..Len(githubUsernames) |-> getAdoUser(githubUsernames[k])],
              LAMBDA email : email # Null)

\* the first mapped identity, whatever its position among the assignees
getPrimaryAdoUser_FirstAssigneeOnly(githubUsernames) ==
    IF Len(githubUsernames) > 0 THEN getAdoUser(githubUsernames[1]) ELSE Null

getPrimaryAdoUser(githubUsernames) ==
    IF Len(getAdoUsers(githubUsernames)) > 0 THEN getAdoUsers(githubUsernames)[1]
    ELSE Null

(***************************************************************************)
(* buildTagsString(vm): the tags, in order (joined with "; " in the code)  *)
(***************************************************************************)
buildTagsString(vm) ==
    <<"GitHub Issue", vm.repo_name, GhTag(vm.number)>> \o
    (IF labels_allAsTags
     THEN SelectSeq(vm.labels, LAMBDA l : ~Truthy(Get(labels_priorityLabels, l)))
     ELSE <<>>)

(***************************************************************************)
(* getPriorityFromLabels(labels): the table value of the first label whose *)
(* lookup in config.labels.priorityLabels is truthy, null when none is     *)
(***************************************************************************)
RECURSIVE getPriorityFromLabels(_)
getPriorityFromLabels(labels) ==
    IF labels = <<>> THEN Null
    ELSE IF Truthy(Get(labels_priorityLabels, Head(labels)))
    THEN Get(labels_priorityLabels, Head(labels))
    ELSE getPriorityFromLabels(Tail(labels))

(***************************************************************************)
(* Patch documents: sequences of [op, path, value]                         *)
(***************************************************************************)
Op(op, path, value) == [op |-> op, path |-> path, value |-> value]

HasPath(patch, path) == \E k \in 1..Len(patch) : patch[k].path = path

\* the value the last operation on path carries
PatchValue(patch, path) ==
    patch[CHOOSE k \in 1..Len(patch) :
            /\ patch[k].path = path
            /\ \A j \in (k+1)..Len(patch) : patch[j].path # path].value

\* the fields of a work item after the target applied a patch to it
ApplyPatch(w, patch) ==
    [ w EXCEPT
        !.title = IF HasPath(patch, "/fields/System.Title")
                  THEN PatchValue(patch, "/fields/System.Title") ELSE @,
        !.description = IF HasPath(patch, "/fields/System.Description")
                        THEN PatchValue(patch, "/fields/System.Description") ELSE @,
        !.state = IF HasPath(patch, "/fields/System.State")
                  THEN PatchValue(patch, "/fields/System.State") ELSE @,
        !.tags  = IF HasPath(patch, "/fields/System.Tags")
                  THEN PatchValue(patch, "/fields/System.Tags") ELSE @ ]

(***************************************************************************)
(* config.customFields.mappings, in the order of the object literal.       *)
(*   adoField: the target field or Null; hasMapping/mapping: the           *)
(*   translation table; restricted/workItemTypes: the work-item types the  *)
(*   field applies to; fallback: "comment" or "tag"                        *)
(***************************************************************************)
FieldMapping(adoField, hasMapping, mapping, restricted, workItemTypes, fallback) ==
    [adoField |-> adoField, hasMapping |-> hasMapping, mapping |-> mapping,
     restricted |-> restricted, workItemTypes |-> workItemTypes, fallback |-> fallback]

customFields_mappings ==
    << <<"Business Priority",
         FieldMapping("Microsoft.VSTS.Common.Priority", TRUE,
                      ("High" :> "1") @@ ("Normal" :> "2") @@ ("Low" :> "3"),
                      FALSE, {}, "comment")>>,
       <<"Time Priority", FieldMapping(Null, FALSE, <<>>, FALSE, {}, "comment")>>,
       <<"Time Estimation",
         FieldMapping("Microsoft.VSTS.Scheduling.Effort", FALSE, <<>>, FALSE, {}, "comment")>>,
       <<"Start Date",
         FieldMapping("Microsoft.VSTS.Scheduling.StartDate", FALSE, <<>>, TRUE, {"Epic"},
                      "comment")>>,
       <<"End Date",
         FieldMapping("Microsoft.VSTS.Scheduling.TargetDate", FALSE, <<>>, TRUE, {"Epic"},
                      "comment")>>,
       <<"Business Value",
         FieldMapping("Microsoft.VSTS.Common.BusinessValue", FALSE, <<>>, FALSE, {}, "comment")>>,
       <<"Product", FieldMapping(Null, FALSE, <<>>, FALSE, {}, "tag")>>,
       <<"Category", FieldMapping(Null, FALSE, <<>>, FALSE, {}, "tag")>>,
       <<"Assignee QA", FieldMapping(Null, FALSE, <<>>, FALSE, {}, "comment")>>,
       <<"Business Owner", FieldMapping(Null, FALSE, <<>>, FALSE, {}, "comment")>> >>

\* the number 0 as the value of a number field
NumberZero == "<0>"

\* a parsed project item: fields maps the names of the fields that have a
\* value to that value; present is FALSE for null
NoProjectFields == [present |-> FALSE, fields |-> <<>>]

\* `/fields/${mapping.adoField}`
FieldPath(adoField) == <<"/fields/", adoField>>

(***************************************************************************)
(* mapCustomFields(vm, projectInfo, workItemType): the operations of the   *)
(* configured custom fields                                                *)
(***************************************************************************)
mapCustomField(entry, projectInfo, workItemType) ==
    LET fieldName == entry[1]
        mapping   == entry[2]
        value     == IF fieldName \in DOMAIN projectInfo.fields
                     THEN projectInfo.fields[fieldName] ELSE Undefined
    IN  IF ~Truthy(value) \/ value = NumberZero THEN <<>>
        ELSE IF mapping.restricted /\ workItemType \notin mapping.workItemTypes THEN <<>>
        ELSE IF Truthy(mapping.adoField)
        THEN << Op("add", FieldPath(mapping.adoField),
                   IF mapping.hasMapping /\ Get(mapping.mapping, value) # Undefined
                   THEN Get(mapping.mapping, value)
                   ELSE value) >>
        ELSE <<>>

RECURSIVE mapCustomFieldsFrom(_, _, _)
mapCustomFieldsFrom(entries, projectInfo, workItemType) ==
    IF entries = <<>> THEN <<>>
    ELSE mapCustomField(Head(entries), projectInfo, workItemType) \o
         mapCustomFieldsFrom(Tail(entries), projectInfo, workItemType)

mapCustomFields(vm, projectInfo, workItemType) ==
    IF ~projectInfo.present THEN <<>>
    ELSE mapCustomFieldsFrom(customFields_mappings, projectInfo, workItemType)

(***************************************************************************)
(* GitHubProjectsClient.formatCustomFieldsComment(projectInfo): the lines  *)
(* of the comment after its heading, as the set of [field, value]          *)
(***************************************************************************)
StandardFields == {"Status", "State", "Column", "Sprint", "Iteration"}

formatCustomFieldsComment(projectInfo) ==
    IF ~projectInfo.present THEN {}
    ELSE { <<fieldName, projectInfo.fields[fieldName]>> :
             fieldName \in DOMAIN projectInfo.fields \ StandardFields }

(***************************************************************************)
(* createWorkItem(vm, projectInfo, stateMapper, userMapper): the patch of  *)
(* a record without project information (projectInfo = null)               *)
(***************************************************************************)
\* the patch with one priority operation for every label that has a
\* priority, instead of one for the first such label
createPatchWith_PriorityPerLabel(features, vm) ==
    (IF features.syncTitle
     THEN << Op("add", "/fields/System.Title", TitleWithMarker(vm.title, vm.number)) >>
     ELSE <<>>) \o
    (IF features.syncDescription
     THEN << Op("add", "/fields/System.Description", makeHtml(vm.body)) >> \o
          (IF vm.wit = "Bug"
           THEN << Op("add", "/fields/Microsoft.VSTS.TCM.ReproSteps", makeHtml(vm.body)) >>
           ELSE <<>>)
     ELSE <<>>) \o
    (IF features.syncState
     THEN << Op("add", "/fields/System.State",
                getAdoState(getDefaultConfig, vm.wit, vm.state, Null, Null)) >>
     ELSE <<>>) \o
    (IF features.syncLabels
     THEN << Op("add", "/fields/System.Tags", buildTagsString(vm)) >>
     ELSE <<>>) \o
    << Op("add", "/relations/-", <<"Hyperlink", vm.number>>),
       Op("add", "/fields/System.History", <<"created", vm.number>>) >> \o
    << Op("add", "/fields/System.AreaPath", getAreaPath(getDefaultConfig, Null)) >> \o
    (IF features.syncAssignees /\ Len(vm.assignees) > 0
        /\ Truthy(getPrimaryAdoUser(vm.assignees))
     THEN << Op("add", "/fields/System.AssignedTo", getPrimaryAdoUser(vm.assignees)) >>
     ELSE <<>>) \o
    (IF features.syncDates /\ vm.env.bypassRules
     THEN << Op("add", "/fields/System.CreatedDate", <<"created_at", vm.number>>) >> \o
          (IF Truthy(vm.closed_at)
           THEN << Op("add", "/fields/System.ClosedDate", vm.closed_at) >>
           ELSE <<>>) \o
          << Op("add", "/fields/System.CreatedBy", <<"user", vm.number>>) >>
     ELSE <<>>) \o
    [k \in 1..Len(SelectSeq(vm.labels, LAMBDA l : Truthy(Get(labels_priorityLabels, l)))) |->
        Op("add", "/fields/Microsoft.VSTS.Common.Priority",
           Get(labels_priorityLabels,
               SelectSeq(vm.labels, LAMBDA l : Truthy(Get(labels_priorityLabels, l)))[k]))] \o
    << Op("add", "/fields/Microsoft.VSTS.Scheduling.StoryPoints", "0.5") >>

\* the patch under the feature flags features
createPatchWith(features, vm) ==
    (IF features.syncTitle
     THEN << Op("add", "/fields/System.Title", TitleWithMarker(vm.title, vm.number)) >>
     ELSE <<>>) \o
    (IF features.syncDescription
     THEN << Op("add", "/fields/System.Description", makeHtml(vm.body)) >> \o
          (IF vm.wit = "Bug"
           THEN << Op("add", "/fields/Microsoft.VSTS.TCM.ReproSteps", makeHtml(vm.body)) >>
           ELSE <<>>)
     ELSE <<>>) \o
    (IF features.syncState
     THEN << Op("add", "/fields/System.State",
                getAdoState(getDefaultConfig, vm.wit, vm.state, Null, Null)) >>
     ELSE <<>>) \o
    (IF features.syncLabels
     THEN << Op("add", "/fields/System.Tags", buildTagsString(vm)) >>
     ELSE <<>>) \o
    << Op("add", "/relations/-", <<"Hyperlink", vm.number>>),
       Op("add", "/fields/System.History", <<"created", vm.number>>) >> \o
    << Op("add", "/fields/System.AreaPath", getAreaPath(getDefaultConfig, Null)) >> \o
    (IF features.syncAssignees /\ Len(vm.assignees) > 0
        /\ Truthy(getPrimaryAdoUser(vm.assignees))
     THEN << Op("add", "/fields/System.AssignedTo", getPrimaryAdoUser(vm.assignees)) >>
     ELSE <<>>) \o
    (IF features.syncDates /\ vm.env.bypassRules
     THEN << Op("add", "/fields/System.CreatedDate", <<"created_at", vm.number>>) >> \o
          (IF Truthy(vm.closed_at)
           THEN << Op("add", "/fields/System.ClosedDate", vm.closed_at) >>
           ELSE <<>>) \o
          << Op("add", "/fields/System.CreatedBy", <<"user", vm.number>>) >>
     ELSE <<>>) \o
    (IF Truthy(getPriorityFromLabels(vm.labels))
     THEN << Op("add", "/fields/Microsoft.VSTS.Common.Priority",
                getPriorityFromLabels(vm.labels)) >>
     ELSE <<>>) \o
    << Op("add", "/fields/Microsoft.VSTS.Scheduling.StoryPoints", "0.5") >>

createPatch(vm) == createPatchWith(config_features, vm)

Write(kind, id, patch) == [kind |-> kind, id |-> id, patch |-> patch]

\* syncComments(workItem.id, vm.comments, vm.env) behind the test
\* `workItem && config.features.syncComments && vm.comments.length > 0`:
\* one addComment call per comment.  truthy is the truthiness of what
\* executeWorkItemCreate returned (a work item, or -1); the id of -1 is
\* undefined, written as the id of NoWorkItem.
commentWrites(features, truthy, workItemId, comments) ==
    IF truthy /\ features.syncComments
    THEN [k \in 1..Len(comments) |->
            Write("update", workItemId,
                  << Op("add", "/fields/System.History", <<"comment", comments[k]>>) >>)]
    ELSE <<>>

\* executeWorkItemCreate: the work item the target project creates from a
\* patch; ids are assigned in sequence
createdWorkItem(items, vm, patch) ==
    ApplyPatch([NoWorkItem EXCEPT !.id = Len(items) + 1, !.wit = vm.wit], patch)

\* createWorkItem.  io is "ok", "apiError" (client.createWorkItem rejects,
\* executeWorkItemCreate returns -1) or "connectThrows"
\* (getWorkItemTrackingApi rejects outside the try block).  With project
\* information the function ends in a ReferenceError before any call:
\* projectsClient is a local of the two workflow functions and is not
\* defined in createWorkItem.
\*   result "ok" | "error" (-1) | "throws"; issued: the create call was made
\*   writes: the update calls made after the create call (comment sync)
createWorkItemWith(features, items, vm, projectInfo, io) ==
    IF projectInfo # Null
    THEN [result |-> "throws", issued |-> FALSE, workItem |-> NoWorkItem, items |-> items,
          patch |-> <<>>, writes |-> <<>>]
    ELSE IF io = "connectThrows"
    THEN [result |-> "throws", issued |-> FALSE, workItem |-> NoWorkItem, items |-> items,
          patch |-> <<>>, writes |-> <<>>]
    ELSE IF io = "apiError"
    THEN [result |-> "error", issued |-> TRUE, workItem |-> NoWorkItem, items |-> items,
          patch |-> createPatchWith(features, vm),
          writes |-> commentWrites(features, TRUE, NoWorkItem.id, vm.comments)]
    ELSE [result |-> "ok", issued |-> TRUE,
          workItem |-> createdWorkItem(items, vm, createPatchWith(features, vm)),
          items |-> Append(items, createdWorkItem(items, vm, createPatchWith(features, vm))),
          patch |-> createPatchWith(features, vm),
          writes |-> commentWrites(features, TRUE, Len(items) + 1, vm.comments)]

createWorkItem(items, vm, projectInfo, io) ==
    createWorkItemWith(config_features, items, vm, projectInfo, io)

(***************************************************************************)
(* updateWorkItemDirect(patchDocument, workItemId, env).  io is "ok",      *)
(* "apiError" (client.updateWorkItem rejects, the function returns null)   *)
(* or "connectThrows" (getWorkItemTrackingApi rejects outside the try).    *)
(*   writes: the update calls made, as [kind, id, patch]                   *)
(***************************************************************************)
updateWorkItemDirect(items, patch, workItemId, io) ==
    IF io = "connectThrows"
    THEN [result |-> "throws", writes |-> <<>>, items |-> items]
    ELSE IF io = "apiError"
    THEN [result |-> "null", writes |-> <<Write("update", workItemId, patch)>>,
          items |-> items]
    ELSE [result |-> "ok", writes |-> <<Write("update", workItemId, patch)>>,
          items |-> [k \in 1..Len(items) |->
                        IF items[k].id = workItemId THEN ApplyPatch(items[k], patch)
                        ELSE items[k]]]

\* a handler that ended without calling the target
NoWrite(result, items) == [result |-> result, writes |-> <<>>, items |-> items]

(***************************************************************************)
(* updateWorkItem(vm, workItem, projectInfo, stateMapper, userMapper)      *)
(***************************************************************************)
\* the patch document with the history entry first
updatePatchWith_HistoryFirst(features, vm, workItem) ==
    << Op("add", "/fields/System.History", <<"updated", vm.number>>) >> \o
    (IF features.syncTitle /\ workItem.title # TitleWithMarker(vm.title, vm.number)
     THEN << Op("replace", "/fields/System.Title", TitleWithMarker(vm.title, vm.number)) >>
     ELSE <<>>) \o
    (IF features.syncDescription
     THEN << Op("replace", "/fields/System.Description", makeHtml(vm.body)) >>
     ELSE <<>>)

\* the patch document of updateWorkItem without project information, under
\* the feature flags features
updatePatchWith(features, vm, workItem) ==
    (IF features.syncTitle /\ workItem.title # TitleWithMarker(vm.title, vm.number)
     THEN << Op("replace", "/fields/System.Title", TitleWithMarker(vm.title, vm.number)) >>
     ELSE <<>>) \o
    (IF features.syncDescription
     THEN << Op("replace", "/fields/System.Description", makeHtml(vm.body)) >>
     ELSE <<>>) \o
    << Op("add", "/fields/System.History", <<"updated", vm.number>>) >>

updatePatch(vm, workItem) == updatePatchWith(config_features, vm, workItem)

\* updateWorkItem under the feature flags features
updateWorkItemWith(features, items, vm, workItem, projectInfo, io) ==
    IF features.syncProjectStatus /\ projectInfo # Null
    THEN NoWrite("throws", items)
    ELSE updateWorkItemDirect(items, updatePatchWith(features, vm, workItem),
                              workItem.id, io)

\* with project information the state block reads projectsClient, which is
\* not defined in this function: a ReferenceError before the write
updateWorkItem(items, vm, workItem, projectInfo, io) ==
    updateWorkItemWith(config_features, items, vm, workItem, projectInfo, io)

(***************************************************************************)
(* closeWorkItem / reopenWorkItem                                          *)
(***************************************************************************)
closeWorkItem(items, vm, workItem, projectInfo, io) ==
    IF projectInfo # Null
    THEN NoWrite("throws", items)
    ELSE updateWorkItemDirect(items,
            << Op("replace", "/fields/System.State",
                  getAdoState(getDefaultConfig, workItem.wit, "closed", Null,
                              "In Production")),
               Op("add", "/fields/System.History", <<"closed", vm.number>>) >> \o
            (IF features_syncDates /\ Truthy(vm.closed_at) /\ vm.env.bypassRules
             THEN << Op("add", "/fields/System.ClosedDate", vm.closed_at) >>
             ELSE <<>>),
            workItem.id, io)

reopenWorkItem(items, vm, workItem, projectInfo, io) ==
    IF projectInfo # Null
    THEN NoWrite("throws", items)
    ELSE updateWorkItemDirect(items,
            << Op("replace", "/fields/System.State",
                  getAdoState(getDefaultConfig, workItem.wit, "open", Null, "No status")),
               Op("add", "/fields/System.History", <<"reopened", vm.number>>) >>,
            workItem.id, io)

(***************************************************************************)
(* addLabel / removeLabel / addComment.  System.Tags is the string of the  *)
(* tags joined with "; "; the model keeps the list of tags and computes    *)
(* the string where the code reads it as a string.                         *)
(***************************************************************************)
\* the characters of the tag and label names of the model
TagText ==
    ("GitHub Issue" :> <<"G", "i", "t", "H", "u", "b", " ", "I", "s", "s", "u", "e">>) @@
    ("Issue" :> <<"I", "s", "s", "u", "e">>) @@
    ("web"   :> <<"w", "e", "b">>) @@
    ("api"   :> <<"a", "p", "i">>) @@
    ("GH-1"  :> <<"G", "H", "-", "1">>) @@
    ("GH-2"  :> <<"G", "H", "-", "2">>) @@
    ("docs"  :> <<"d", "o", "c", "s">>) @@
    ("doc"   :> <<"d", "o", "c">>) @@
    ("ux"    :> <<"u", "x">>)

\* currentTags as a string: the tags joined with "; "
RECURSIVE tagsString(_)
tagsString(tags) ==
    IF tags = <<>> THEN <<>>
    ELSE IF Len(tags) = 1 THEN TagText[tags[1]]
    ELSE TagText[tags[1]] \o <<";", " ">> \o tagsString(Tail(tags))

\* String.prototype.includes
includes(str, searchString) ==
    \E i \in 0..(Len(str) - Len(searchString)) :
        SubSeq(str, i + 1, i + Len(searchString)) = searchString

addLabel(items, vm, workItem, io) ==
    IF includes(tagsString(workItem.tags), TagText[vm.label])
    THEN NoWrite("ok", items)
    ELSE updateWorkItemDirect(items,
            << Op("replace", "/fields/System.Tags", Append(workItem.tags, vm.label)) >>,
            workItem.id, io)

\* currentTags.split("; ").filter(tag => tag !== vm.label).join("; ")
removeLabel(items, vm, workItem, io) ==
    IF ~includes(tagsString(workItem.tags), TagText[vm.label])
    THEN NoWrite("ok", items)
    ELSE updateWorkItemDirect(items,
            << Op("replace", "/fields/System.Tags",
                  SelectSeq(workItem.tags, LAMBDA t : t # vm.label)) >>,
            workItem.id, io)

addComment(items, workItemId, commentText, io) ==
    updateWorkItemDirect(items,
        << Op("add", "/fields/System.History", commentText) >>, workItemId, io)

(***************************************************************************)
(* updateAssignee(vm, workItem, userMapper)                                *)
(***************************************************************************)
updateAssignee(items, vm, workItem, io) ==
    LET patchDocument ==
            IF Len(vm.assignees) > 0
            THEN (IF Truthy(getPrimaryAdoUser(vm.assignees))
                  THEN << Op("replace", "/fields/System.AssignedTo",
                             getPrimaryAdoUser(vm.assignees)) >>
                  ELSE <<>>)
            ELSE << Op("remove", "/fields/System.AssignedTo", Null) >>
    IN IF Len(patchDocument) > 0
       THEN updateWorkItemDirect(items, patchDocument, workItem.id, io)
       ELSE NoWrite("ok", items)

(***************************************************************************)
(* handleAction(vm, workItem, projectInfo, stateMapper, userMapper)        *)
(***************************************************************************)
\* the events of the model ("milestoned" stands for the unhandled ones)
EventActions == {"", "opened", "edited", "created", "closed", "reopened",
                 "labeled", "unlabeled", "milestoned"}

\* the assignment events
AssignActions == {"assigned", "unassigned"}

handleAction(items, vm, workItem, projectInfo, io) ==
    CASE vm.action = "edited" ->
            updateWorkItem(items, vm, workItem, projectInfo, io)
      [] vm.action = "created" /\ Truthy(vm.comment_text) ->
            addComment(items, workItem.id, <<"comment", vm.comment_text>>, io)
      [] vm.action = "closed" ->
            closeWorkItem(items, vm, workItem, projectInfo, io)
      [] vm.action = "reopened" ->
            reopenWorkItem(items, vm, workItem, projectInfo, io)
      [] vm.action \in AssignActions ->
            updateAssignee(items, vm, workItem, io)
      [] vm.action = "labeled" /\ Truthy(vm.label) ->
            addLabel(items, vm, workItem, io)
      [] vm.action = "unlabeled" /\ Truthy(vm.label) ->
            removeLabel(items, vm, workItem, io)
      [] OTHER -> NoWrite("ok", items)

(***************************************************************************)
(* updateIssueBody(vm, workItem): the AB# link written into the issue.     *)
(*   sourceWrites: the octokit.issues.update calls made, as                *)
(*   [number, marker]; a rejected call is caught and changes nothing else  *)
(***************************************************************************)
\* the work item ids m for which the text of a body holds "AB#m"
MarkersIn(body) ==
    CASE body = "body AB#1"  -> {1}
      [] body = "body AB#12" -> {12}
      [] body = "body AB#2"  -> {2}
      [] OTHER               -> {}

\* the decimal digits of id are the first digits of m
RECURSIVE IsDecimalPrefix(_, _)
IsDecimalPrefix(id, m) ==
    \/ m = id
    \/ (m >= 10 /\ IsDecimalPrefix(id, m \div 10))

\* vm.body.includes(`AB#${workItem.id}`)
bodyIncludesMarker(body, id) == \E m \in MarkersIn(body) : IsDecimalPrefix(id, m)

updateIssueBody(vm, workItem) ==
    IF bodyIncludesMarker(vm.body, workItem.id)
    THEN <<>>
    ELSE << [number |-> vm.number, marker |-> workItem.id] >>

\* the back-reference step after a create that returned a work item
linkIssue(vm, workItem) ==
    IF Truthy(vm.env.ghToken) THEN updateIssueBody(vm, workItem) ELSE <<>>

(***************************************************************************)
(* The awaited calls of a workflow, as a log of "start" and "end" events   *)
(***************************************************************************)
\* a call started and left running while the caller goes on
Await_Detached(call) == << [call |-> call, ev |-> "start"] >>

\* `await call(...)`: the caller goes on when the call has settled
Await(call) == << [call |-> call, ev |-> "start"], [call |-> call, ev |-> "end"] >>

CountEv(log, ev, k) == Cardinality({ j \in 1..k : log[j].ev = ev })

\* the calls in flight after the first k events of log, n0 being in
\* flight before
InFlightAt(n0, log, k) == n0 + CountEv(log, "start", k) - CountEv(log, "end", k)

InFlightAfter(n0, log) == InFlightAt(n0, log, Len(log))

\* the calls already in flight when a call of the log starts, at most
InFlightAtStartMax(n0, log) ==
    LET at == { InFlightAt(n0, log, k - 1) : k \in { j \in 1..Len(log) : log[j].ev = "start" } }
    IN IF at = {} THEN 0 ELSE CHOOSE n \in at : \A o \in at : o <= n

(***************************************************************************)
(* One record cycle and what it did.  A cycle summary holds                *)
(*   pair, mode the record and the workflow ("single" | "bulk")            *)
(*   find       "error" | "null" | "found": the result of find(vm)         *)
(*   io         what the lookup's client calls did                         *)
(*   nMatches   number of work items satisfying the query at lookup time   *)
(*   foundId    id of the work item find returned (0 if none)              *)
(*   createIssued  the create call was made in this cycle                  *)
(*   created    id of the work item created in this cycle (0 if none)      *)
(*   prevCreated  id of the work item the previous cycle of the same pair  *)
(*              created (0 if there was none); filled in by the action     *)
(*   writes     the update calls made in this cycle, in order, as          *)
(*              [kind, id]                                                 *)
(*   outcome    "ok" | "failed" (reported failure) | "threw"               *)
(***************************************************************************)
Summary(mode, f, items, vm, io, createIssued, created, writes, outcome) ==
    [ pair |-> <<vm.repository, vm.number>>, mode |-> mode, find |-> f.kind,
      io |-> io.find,
      nMatches |-> Len(queryByWiql(items, vm)), foundId |-> f.workItem.id,
      createIssued |-> createIssued, created |-> created, prevCreated |-> 0,
      writes |-> [k \in 1..Len(writes) |-> [kind |-> writes[k].kind, id |-> writes[k].id]],
      outcome |-> outcome ]

\* what the target's client does during one cycle: at its lookup, at its
\* create call and at its update call (a cycle makes at most one of the
\* last two after a failed one)
FindOk == [connect |-> "ok", query |-> "ok", fetch |-> "ok"]

CycleIO ==
    { [find |-> f, create |-> c, update |-> "ok"] :
        f \in FindIO, c \in {"ok", "apiError", "connectThrows"} }
    \cup
    { [find |-> FindOk, create |-> "ok", update |-> u] : u \in {"apiError", "connectThrows"} }

(***************************************************************************)
(* handleSingleIssue(context, env).  projectInfo is what                   *)
(* getIssueProjectInfo resolves with when it is called.  The result is the *)
(* work items of the target afterwards, the calls awaited, the writes to   *)
(* the source and the summary of the cycle.                                *)
(***************************************************************************)
\* the lifecycle step at the end of handleSingleIssue
singleAction(items, vm, workItem, projectInfo, io) ==
    IF Truthy(vm.action)
    THEN handleAction(items, vm, workItem, projectInfo, io.update)
    ELSE NoWrite("ok", items)

\* find-or-create and the lifecycle step (lines 118-168)
findOrCreate(items, vm0, projectInfo, io) ==
    LET f == find(items, vm0, io.find) IN
    IF f.kind = "error"
    THEN [items |-> items, calls |-> Await("find"), sourceWrites |-> <<>>,
          summary |-> Summary("single", f, items, vm0, io, FALSE, 0, <<>>, "failed")]
    ELSE IF f.kind = "null"
    THEN LET vm == [vm0 EXCEPT !.wit = getWorkItemType(getDefaultConfig, vm0.title,
                                                       vm0.labels)]
             c  == createWorkItem(items, vm, projectInfo, io.create)
             h  == singleAction(c.items, vm, c.workItem, projectInfo, io)
         IN IF c.result = "throws"
            THEN [items |-> items,
                  calls |-> Await("find") \o Await("createWorkItem"),
                  sourceWrites |-> <<>>,
                  summary |-> Summary("single", f, items, vm0, io, c.issued, 0, <<>>,
                                      "threw")]
            ELSE IF c.result = "error"
            THEN [items |-> items,
                  calls |-> Await("find") \o Await("createWorkItem"),
                  sourceWrites |-> <<>>,
                  summary |-> Summary("single", f, items, vm0, io, c.issued, 0, <<>>,
                                      "failed")]
            ELSE [items |-> h.items,
                  calls |-> Await("find") \o Await("createWorkItem") \o
                            (IF Truthy(vm.env.ghToken) THEN Await("updateIssueBody")
                             ELSE <<>>) \o
                            (IF Truthy(vm.action) THEN Await("handleAction") ELSE <<>>),
                  sourceWrites |-> linkIssue(vm, c.workItem),
                  summary |-> Summary("single", f, items, vm0, io, c.issued,
                                      c.workItem.id, h.writes,
                                      IF h.result = "throws" THEN "threw" ELSE "ok")]
    ELSE LET h == singleAction(items, vm0, f.workItem, projectInfo, io)
         IN [items |-> h.items,
             calls |-> Await("find") \o
                       (IF Truthy(vm0.action) THEN Await("handleAction") ELSE <<>>),
             sourceWrites |-> <<>>,
             summary |-> Summary("single", f, items, vm0, io, FALSE, 0, h.writes,
                                 IF h.result = "throws" THEN "threw" ELSE "ok")]

\* the sender whose events are the target's own writes to the source
BotSender == "azure-boards[bot]"

\* the GitHub Projects client exists
hasProjectsClient(vm) == features_syncProjectStatus /\ Truthy(vm.env.ghToken)

\* the summary of a cycle that made no call
skippedSummary(vm) ==
    [ pair |-> <<vm.repository, vm.number>>, mode |-> "single", find |-> "none",
      io |-> FindOk, nMatches |-> 0, foundId |-> 0,
      createIssued |-> FALSE, created |-> 0, prevCreated |-> 0,
      writes |-> <<>>, outcome |-> "skipped" ]

\* handleSingleIssue without the test of the sender
handleSingleIssue_NoSenderCheck(items, vm0, projectInfo, io) ==
    LET client == hasProjectsClient(vm0)
        r == findOrCreate(items, vm0, IF client THEN projectInfo ELSE Null, io)
    IN  [r EXCEPT !.calls = (IF client THEN Await("getIssueProjectInfo") ELSE <<>>) \o @]

handleSingleIssue(items, vm0, projectInfo, io) ==
    IF vm0.sender_login = BotSender
    THEN [items |-> items, calls |-> <<>>, sourceWrites |-> <<>>,
          summary |-> skippedSummary(vm0)]
    ELSE LET client == hasProjectsClient(vm0)
             r == findOrCreate(items, vm0, IF client THEN projectInfo ELSE Null, io)
         IN  [r EXCEPT !.calls = (IF client THEN Await("getIssueProjectInfo") ELSE <<>>)
                                   \o @]

(***************************************************************************)
(* The records the workflows receive                                       *)
(***************************************************************************)
ProjectInfos == {Null, "projectInfo"}

\* getValuesFromPayload(payload, env) for an issue event of pair p
\* the issue as the source holds it when a cycle reads it: title
\* (characters), state and labels
Snapshots ==
    { [title |-> <<"A">>, state |-> "open", labels |-> <<>>],
      [title |-> <<"[", "B", "u", "g", "]">>, state |-> "closed", labels |-> <<"docs">>] }

EventVMs(p) ==
    { [ number |-> p[2], repository |-> p[1], repo_name |-> p[1],
        title |-> sn.title, state |-> sn.state, labels |-> sn.labels, body |-> "body",
        action |-> a,
        label |-> IF a \in {"labeled", "unlabeled"} THEN "docs" ELSE "",
        comment_text |-> IF a = "created" THEN "comment" ELSE "",
        sender_login |-> "user",
        wit |-> "Product Backlog Item",
        assignees |-> <<>>, closed_at |-> Null, comments |-> <<>>,
        env |-> [ghToken |-> "ghToken", bypassRules |-> FALSE] ] :
      sn \in Snapshots, a \in EventActions }

(***************************************************************************)
(* handleBulkMigration(env): pagination                                    *)
(***************************************************************************)
\* per_page of listForRepo (100 in the code, scaled to the listings of the
\* model)
perPage == 2

MinNat(a, b) == IF a < b THEN a ELSE b

\* response.data of page number page
listForRepo(listing, page) ==
    SubSeq(listing, (page - 1) * perPage + 1, MinNat(page * perPage, Len(listing)))

\* the while (true) loop from page on: the issues collected
RECURSIVE fetchIssues(_, _)
fetchIssues(listing, page) ==
    LET data == listForRepo(listing, page)
        onlyIssues == SelectSeq(data, LAMBDA r : ~r.pull_request)
    IN IF Len(data) = 0 THEN <<>>
       ELSE IF Len(data) < perPage THEN onlyIssues
       ELSE onlyIssues \o fetchIssues(listing, page + 1)

\* what the repository lists: issues 1 and 2 and pull request 3
Record(number, sn, pr) ==
    [number |-> number, title |-> sn.title, state |-> sn.state, labels |-> sn.labels,
     pull_request |-> pr]

SourceListings ==
    UNION { { <<>>,
              << Record(1, sn, FALSE) >>,
              << Record(2, sn, FALSE), Record(1, sn, FALSE) >>,
              << Record(3, sn, TRUE), Record(2, sn, FALSE), Record(1, sn, FALSE) >> } :
            sn \in Snapshots }

\* convertIssueToVm(issue, owner, repo, env)
convertIssueToVm(issue, repo) ==
    [ number |-> issue.number, repository |-> repo, repo_name |-> repo,
      title |-> issue.title, state |-> issue.state, labels |-> issue.labels,
      body |-> "body", action |-> "opened", label |-> "", comment_text |-> "",
      sender_login |-> "user", wit |-> "Product Backlog Item",
      assignees |-> <<>>, closed_at |-> Null, comments |-> <<>>,
      env |-> [ghToken |-> "ghToken", bypassRules |-> FALSE] ]

(***************************************************************************)
(* handleBulkMigration: the body of the loop for one issue.  The result is *)
(* the work items afterwards, the summary of the cycle and how the body    *)
(* ended: "success", "failed" (creation failed) or "caught" (an error      *)
(* reached the catch block); write is what the create or update call of    *)
(* the body returned: "ok", "error" (-1), "null" or "throws".              *)
(***************************************************************************)
bulkRecord(items, vm0, projectInfo, io) ==
    LET f == find(items, vm0, io.find) IN
    IF f.kind = "null" \/ f.kind = "error"
    THEN LET vm == [vm0 EXCEPT !.wit = getWorkItemType(getDefaultConfig, vm0.title,
                                                       vm0.labels)]
             c  == createWorkItem(items, vm, projectInfo, io.create)
         IN IF c.result = "throws"
            THEN [items |-> items, ended |-> "caught",
                  calls |-> Await("find") \o Await("createWorkItem"),
                  write |-> c.result,
                  sourceWrites |-> <<>>,
                  summary |-> Summary("bulk", f, items, vm0, io, c.issued, 0, <<>>,
                                      "threw")]
            ELSE IF c.result = "error"
            THEN [items |-> items, ended |-> "failed",
                  calls |-> Await("find") \o Await("createWorkItem") \o Await("delay"),
                  write |-> c.result,
                  sourceWrites |-> <<>>,
                  summary |-> Summary("bulk", f, items, vm0, io, c.issued, 0, <<>>,
                                      "failed")]
            ELSE [items |-> c.items, ended |-> "success",
                  calls |-> Await("find") \o Await("createWorkItem") \o
                            (IF Truthy(vm.env.ghToken) THEN Await("updateIssueBody")
                             ELSE <<>>) \o Await("delay"),
                  write |-> c.result,
                  sourceWrites |-> linkIssue(vm, c.workItem),
                  summary |-> Summary("bulk", f, items, vm0, io, c.issued,
                                      c.workItem.id, <<>>, "ok")]
    ELSE LET u == updateWorkItem(items, vm0, f.workItem, projectInfo, io.update)
         IN IF u.result = "throws"
            THEN [items |-> items, ended |-> "caught",
                  calls |-> Await("find") \o Await("updateWorkItem"),
                  write |-> u.result,
                  sourceWrites |-> <<>>,
                  summary |-> Summary("bulk", f, items, vm0, io, FALSE, 0, u.writes,
                                      "threw")]
            ELSE [items |-> u.items, ended |-> "success",
                  calls |-> Await("find") \o Await("updateWorkItem") \o Await("delay"),
                  write |-> u.result,
                  sourceWrites |-> <<>>,
                  summary |-> Summary("bulk", f, items, vm0, io, FALSE, 0, u.writes,
                                      "ok")]

(***************************************************************************)
(* Spec: the event-driven workflow and the batch workflow, one run at a    *)
(* time                                                                    *)
(***************************************************************************)
BulkNotRunning == bulk.phase \in {"idle", "done", "aborted"}

\* an issue event sent by azure-boards[bot]: the handler returns at once
SingleIssueFromBot ==
    /\ BulkNotRunning
    /\ nCycles < MaxCycles
    /\ nCycles' = nCycles + 1
    /\ UNCHANGED <<workItems, lastCreated, cycle, bulk, smVars, itVars>>

SingleIssueEvent ==
    /\ BulkNotRunning
    /\ nCycles < MaxCycles
    /\ \E p \in Pairs, projectInfo \in ProjectInfos, io \in CycleIO :
       \E vm \in EventVMs(p) :
       \E r \in {handleSingleIssue(workItems, vm, projectInfo, io)} :
            /\ workItems' = r.items
            /\ cycle' = [r.summary EXCEPT !.prevCreated = lastCreated[p]]
            /\ lastCreated' = [lastCreated EXCEPT ![p] = r.summary.created]
    /\ nCycles' = nCycles + 1
    /\ UNCHANGED <<bulk, smVars, itVars>>

\* config.errorHandling.logFailures
errorHandling_logFailures == TRUE

\* the end of one loop body, where a failed creation is counted neither as
\* a success nor as a failure
countRecord_FailedCreateUncounted(b, issue, ended) ==
    [b EXCEPT
       !.next = @ + 1,
       !.processed = Append(@, [number |-> issue.number, title |-> issue.title,
                                ended |-> ended]),
       !.delayed = (ended # "caught"),
       !.successCount = IF ended = "success" THEN @ + 1 ELSE @,
       !.failCount = IF ended = "caught" THEN @ + 1 ELSE @,
       !.failedIssues =
            IF ended = "success" THEN @
            ELSE Append(@, [number |-> issue.number, title |-> issue.title,
                            error |-> IF ended = "failed" THEN "Creation failed"
                                      ELSE "error.message"]),
       !.phase = IF ended = "caught" /\ ~b.continueOnError THEN "aborted" ELSE @]

\* the end of one loop body: the counters, the failure list, the delay at
\* the end of the try block and the rethrow of the catch block
countRecord(b, issue, ended) ==
    [b EXCEPT
       !.next = @ + 1,
       !.processed = Append(@, [number |-> issue.number, title |-> issue.title,
                                ended |-> ended]),
       !.delayed = (ended # "caught"),
       !.successCount = IF ended = "success" THEN @ + 1 ELSE @,
       !.failCount = IF ended = "success" THEN @ ELSE @ + 1,
       !.failedIssues =
            IF ended = "success" THEN @
            ELSE Append(@, [number |-> issue.number, title |-> issue.title,
                            error |-> IF ended = "failed" THEN "Creation failed"
                                      ELSE "error.message"]),
       !.phase = IF ended = "caught" /\ ~b.continueOnError THEN "aborted" ELSE @]

\* handleBulkMigration up to the pagination: the token and repository
\* checks succeed
BulkStart ==
    /\ BulkNotRunning
    /\ \E listing \in SourceListings, coe \in BOOLEAN :
        /\ nCycles + Len(fetchIssues(listing, 1)) <= MaxCycles
        /\ bulk' = [NotRunning EXCEPT !.phase = "fetching", !.continueOnError = coe,
                                      !.repo = "web", !.listing = listing]
    /\ UNCHANGED <<workItems, lastCreated, cycle, nCycles, smVars, itVars>>

\* handleBulkMigration throws before the pagination: no token or no
\* repository name
BulkStartThrows ==
    /\ BulkNotRunning
    /\ bulk' = [NotRunning EXCEPT !.phase = "aborted"]
    /\ UNCHANGED <<workItems, lastCreated, cycle, nCycles, smVars, itVars>>

\* the body of the pagination loop, where the page is measured after the
\* pull requests were filtered out
fetchPage_MeasuredAfterFilter(b) ==
    LET data == listForRepo(b.listing, b.page)
        onlyIssues == SelectSeq(data, LAMBDA r : ~r.pull_request)
    IN IF Len(onlyIssues) = 0
       THEN [b EXCEPT !.phase = "records", !.delayed = FALSE]
       ELSE IF Len(onlyIssues) < perPage
       THEN [b EXCEPT !.issues = @ \o onlyIssues, !.phase = "records",
                      !.delayed = FALSE]
       ELSE [b EXCEPT !.issues = @ \o onlyIssues, !.page = @ + 1, !.delayed = TRUE]

\* the body of the pagination loop: the page is listed, its issues are
\* kept, and the loop ends or waits before the next page
fetchPage(b) ==
    LET data == listForRepo(b.listing, b.page)
        onlyIssues == SelectSeq(data, LAMBDA r : ~r.pull_request)
    IN IF Len(data) = 0
       THEN [b EXCEPT !.phase = "records", !.delayed = FALSE]
       ELSE IF Len(data) < perPage
       THEN [b EXCEPT !.issues = @ \o onlyIssues, !.phase = "records",
                      !.delayed = FALSE]
       ELSE [b EXCEPT !.issues = @ \o onlyIssues, !.page = @ + 1, !.delayed = TRUE]

\* one iteration of the pagination loop
BulkFetchPage ==
    /\ bulk.phase = "fetching"
    /\ bulk' = fetchPage(bulk)
    /\ UNCHANGED <<workItems, lastCreated, cycle, nCycles, smVars, itVars>>

\* listForRepo rejects: the catch block of the pagination rethrows
BulkFetchThrows ==
    /\ bulk.phase = "fetching"
    /\ bulk' = [bulk EXCEPT !.phase = "aborted"]
    /\ UNCHANGED <<workItems, lastCreated, cycle, nCycles, smVars, itVars>>

\* one iteration of the loop over the fetched issues
BulkRecord ==
    /\ bulk.phase = "records"
    /\ bulk.next <= Len(bulk.issues)
    /\ \E projectInfo \in ProjectInfos, io \in CycleIO :
       \E issue \in {bulk.issues[bulk.next]} :
       \E r \in {bulkRecord(workItems, convertIssueToVm(issue, bulk.repo), projectInfo, io)} :
        LET p == r.summary.pair IN
        /\ workItems' = r.items
        /\ cycle' = [r.summary EXCEPT !.prevCreated = lastCreated[p]]
        /\ lastCreated' = [lastCreated EXCEPT ![p] = r.summary.created]
        /\ bulk' = [countRecord(bulk, issue, r.ended) EXCEPT
                       !.inFlight = InFlightAfter(bulk.inFlight, r.calls),
                       !.inFlightAtStart =
                            IF InFlightAtStartMax(bulk.inFlight, r.calls) > @
                            THEN InFlightAtStartMax(bulk.inFlight, r.calls) ELSE @]
    /\ nCycles' = nCycles + 1
    /\ UNCHANGED <<smVars, itVars>>

\* the loop is over: the summary is printed and the failures are logged
BulkSummary ==
    /\ bulk.phase = "records"
    /\ bulk.next > Len(bulk.issues)
    /\ bulk' = [bulk EXCEPT
                  !.phase = "done",
                  !.summary =
                      [printed |-> TRUE, successful |-> bulk.successCount,
                       failed |-> bulk.failCount, total |-> Len(bulk.issues),
                       failedIssues |-> bulk.failedIssues,
                       logged |-> IF Len(bulk.failedIssues) > 0
                                     /\ errorHandling_logFailures
                                  THEN bulk.failedIssues ELSE <<>>]]
    /\ UNCHANGED <<workItems, lastCreated, cycle, nCycles, smVars, itVars>>

Init ==
    /\ SyncIdle
    /\ IterIdle
    /\ smCall = "pending"
    /\ smCfg = "default"
    /\ smArgs = <<>>
    /\ smResult = Null

Next ==
    \/ SingleIssueFromBot
    \/ SingleIssueEvent
    \/ BulkStart
    \/ BulkStartThrows
    \/ BulkFetchPage
    \/ BulkFetchThrows
    \/ BulkRecord
    \/ BulkSummary

Spec == Init /\ [][Next]_vars

\* the batch run under the scheduling of an async function: an awaited
\* call settles (the page is listed or listForRepo rejects), after which
\* the function goes on
SpecFair ==
    /\ Spec
    /\ WF_vars(BulkFetchPage \/ BulkFetchThrows)
    /\ WF_vars(BulkRecord)
    /\ WF_vars(BulkSummary)

(***************************************************************************)
(* Inputs of the StateMapper calls                                         *)
(***************************************************************************)
MaxLabels == 2

WorkItemTypes  == {"Epic", "Product Backlog Item", "Bug", "Task", "Feature"}
IssueStates    == {Null, "open", "closed", "Closed", "merged"}
ProjectNames   == {Null, "siwar", "Siwar", "falak", "balsam", "constructor"}
ProjectStatuses == {Null, "", "Ready", "In Progress", "In Production", "No status",
                    "Unlisted", "constructor"}
LabelNames     == {"bug", "Bug", "task", "epic", "user-story", "spike", "docs",
                   "constructor"}
LabelLists     == UNION {[1..n -> LabelNames] : n \in 0..MaxLabels}

IssueTitles ==
    { <<>>,
      <<"x">>,
      <<"[", "E", "p", "i", "c", "]", " ", "L">>,
      <<"[", "e", "p", "i", "c", "]", "x">>,
      <<"[", "B", "U", "G", "]", " ", "x">>,
      <<"[", "T", "a", "s", "k", "]", " ", "a">>,
      <<"[", "t", "x">>,
      <<"[", "S", "t", "o", "r", "y", "]">>,
      <<"F", "i", "x", " ", "[", "B", "u", "g", "]">>,
      <<"d", "e", "f", "a", "u", "l", "t", " ", "x">> }

(***************************************************************************)
(* Inputs of find(vm): what the target project holds and what its client   *)
(* does                                                                    *)
(***************************************************************************)
MaxItems == 3

\* work items as the target project may hold them: created for issue 1 or 2
\* of repository "web", for issue 1 of another repository, or carrying the
\* title marker without the "GitHub Issue" tag
ItemShapes ==
    { [title |-> TitleWithMarker(<<"A">>, 1), tags |-> <<"GitHub Issue", "web", "GH-1">>],
      [title |-> TitleWithMarker(<<"A">>, 2), tags |-> <<"GitHub Issue", "web", "GH-2">>],
      [title |-> TitleWithMarker(<<"A">>, 1), tags |-> <<"GitHub Issue", "api", "GH-1">>],
      [title |-> TitleWithMarker(<<"A">>, 1), tags |-> <<"web", "docs">>] }

\* the work items of a target project: ids in sequence
TargetContents ==
    UNION { { [k \in 1..n |-> [NoWorkItem EXCEPT !.id = k, !.title = sh[k].title,
                                                 !.tags = sh[k].tags, !.state = "New",
                                                 !.wit = "Bug"]] :
              sh \in [1..n -> ItemShapes] } : n \in 0..MaxItems }

FindArgs ==
    [method : {"find"}, items : TargetContents,
     vm : UNION {EventVMs(p) : p \in Pairs}, io : FindIO]

(***************************************************************************)
(* Inputs of parseSprintDates                                              *)
(***************************************************************************)
\* sprint names, as texts of characters
\* "Sprint 68 oct 13 - oct 26"
Text01 == <<"S", "p", "r", "i", "n", "t", " ", "6", "8", " ", "o", "c", "t", " ", "1", "3", " ", "-", " ", "o", "c", "t", " ", "2", "6">>
\* "10/13 - 10/26"
Text02 == <<"1", "0", "/", "1", "3", " ", "-", " ", "1", "0", "/", "2", "6">>
\* "2024-10-13 to 2024-10-26"
Text03 == <<"2", "0", "2", "4", "-", "1", "0", "-", "1", "3", " ", "t", "o", " ", "2", "0", "2", "4", "-", "1", "0", "-", "2", "6">>
\* "Sprint 70 Nov 10 - Nov 23"
Text04 == <<"S", "p", "r", "i", "n", "t", " ", "7", "0", " ", "N", "o", "v", " ", "1", "0", " ", "-", " ", "N", "o", "v", " ", "2", "3">>
\* "Sprint 68"
Text05 == <<"S", "p", "r", "i", "n", "t", " ", "6", "8">>
\* ""
Text06 == <<>>
\* "OCT 30 - NOV 12"
Text07 == <<"O", "C", "T", " ", "3", "0", " ", "-", " ", "N", "O", "V", " ", "1", "2">>
\* "foo 13 - bar 26"
Text08 == <<"f", "o", "o", " ", "1", "3", " ", "-", " ", "b", "a", "r", " ", "2", "6">>
\* "constructor 13 - oct 26"
Text09 == <<"c", "o", "n", "s", "t", "r", "u", "c", "t", "o", "r", " ", "1", "3", " ", "-", " ", "o", "c", "t", " ", "2", "6">>
\* "12 13 - 12 26"
Text10 == <<"1", "2", " ", "1", "3", " ", "-", " ", "1", "2", " ", "2", "6">>
\* "10 13 - oct 26"
Text11 == <<"1", "0", " ", "1", "3", " ", "-", " ", "o", "c", "t", " ", "2", "6">>
\* "oct 13-oct 26"
Text12 == <<"o", "c", "t", " ", "1", "3", "-", "o", "c", "t", " ", "2", "6">>
\* "jan 31 - feb 30"
Text13 == <<"j", "a", "n", " ", "3", "1", " ", "-", " ", "f", "e", "b", " ", "3", "0">>
\* "2024-10-13 TO 2024-10-26"
Text14 == <<"2", "0", "2", "4", "-", "1", "0", "-", "1", "3", " ", "T", "O", " ", "2", "0", "2", "4", "-", "1", "0", "-", "2", "6">>
\* "1/5 - 1/19 oct 1 - oct 2"
Text15 == <<"1", "/", "5", " ", "-", " ", "1", "/", "1", "9", " ", "o", "c", "t", " ", "1", " ", "-", " ", "o", "c", "t", " ", "2">>
\* "October 13 - october 26"
Text16 == <<"O", "c", "t", "o", "b", "e", "r", " ", "1", "3", " ", "-", " ", "o", "c", "t", "o", "b", "e", "r", " ", "2", "6">>
\* "S 2024-10-13 to 2024-11-02 x"
Text17 == <<"S", " ", "2", "0", "2", "4", "-", "1", "0", "-", "1", "3", " ", "t", "o", " ", "2", "0", "2", "4", "-", "1", "1", "-", "0", "2", " ", "x">>
\* "Sprint 7 3/4-3/17"
Text18 == <<"S", "p", "r", "i", "n", "t", " ", "7", " ", "3", "/", "4", "-", "3", "/", "1", "7">>
\* "oct 13 to oct 26"
Text19 == <<"o", "c", "t", " ", "1", "3", " ", "t", "o", " ", "o", "c", "t", " ", "2", "6">>
\* "may 6 - Jun 2"
Text20 == <<"m", "a", "y", " ", "6", " ", "-", " ", "J", "u", "n", " ", "2">>

SprintTexts ==
    { Text01, Text02, Text03, Text04, Text05, Text06, Text07, Text08, Text09, Text10,
      Text11, Text12, Text13, Text14, Text15, Text16, Text17, Text18, Text19, Text20 }

ParseYears == {2024, 2025}

ParseArgs == [method : {"parseSprintDates"}, sprintName : SprintTexts, year : ParseYears]

\* the settings of config.features that updateWorkItem reads
FeatureSets ==
    [syncTitle : BOOLEAN, syncDescription : BOOLEAN, syncProjectStatus : BOOLEAN]

\* the view models of an "edited" event of issue #1
EditedVMs == { vm \in EventVMs(<<"web", 1>>) : vm.action = "edited" }

\* snapshots of the work item of issue #1: its title and description are
\* the ones a synchronization of some snapshot of the issue wrote, or older
WorkItemSnapshots ==
    { [NoWorkItem EXCEPT !.id = 1, !.title = TitleWithMarker(t, 1),
                         !.description = makeHtml(b),
                         !.tags = <<"GitHub Issue", "web", "GH-1">>,
                         !.state = "New", !.wit = "Product Backlog Item"] :
      t \in {sn.title : sn \in Snapshots}, b \in {"body", "old body"} }

UpdateArgs ==
    [method : {"updateWorkItem"}, features : FeatureSets, vm : EditedVMs,
     workItem : WorkItemSnapshots, projectInfo : ProjectInfos,
     io : {"ok", "apiError", "connectThrows"}]

\* the view models handleAction receives for the work item of issue #1
ActionVMs ==
    { [vm EXCEPT !.closed_at = c, !.env.bypassRules = b] :
        vm \in EventVMs(<<"web", 1>>), c \in {Null, "2024-10-13T00:00:00Z"},
        b \in BOOLEAN }

\* the labels and assignees of a record that is created
CreateLabelNames == {"docs", "blocker", "deferred-ar", "constructor"}
CreateLabelLists == UNION {[1..n -> CreateLabelNames] : n \in 0..MaxLabels}
AssigneeNames    == {"Alice", "bob", "Carol", "dave"}
AssigneeLists    == UNION {[1..n -> AssigneeNames] : n \in 0..MaxLabels}

\* the assigned / unassigned events of issue #1
AssignVMs ==
    { [vm EXCEPT !.action = a, !.assignees = as] :
        vm \in {v \in EventVMs(<<"web", 1>>) : v.action = "opened"},
        a \in AssignActions, as \in AssigneeLists }

\* the labeled / unlabeled events of issue #1: a new label, labels that are
\* part of another tag's text, and labels equal to the tags of the lookup
LabelEventNames == {"docs", "doc", "ux", "Issue", "GitHub Issue", "web", "GH-1"}

LabelVMs ==
    { [vm EXCEPT !.action = a, !.label = l] :
        vm \in {v \in EventVMs(<<"web", 1>>) : v.action = "opened"},
        a \in {"labeled", "unlabeled"}, l \in LabelEventNames }

\* the work item of issue #1 with and without further tags
TaggedWorkItems ==
    { [w EXCEPT !.tags = @ \o more] :
        w \in WorkItemSnapshots,
        more \in {<<>>, <<"docs">>, <<"doc">>, <<"ux", "docs">>, <<"docs", "doc", "docs">>} }

ActionArgs ==
    [method : {"handleAction"}, vm : ActionVMs \cup AssignVMs, workItem : WorkItemSnapshots,
     projectInfo : ProjectInfos, io : {"ok", "apiError", "connectThrows"}]
    \cup
    [method : {"handleAction"}, vm : LabelVMs, workItem : TaggedWorkItems,
     projectInfo : {Null}, io : {"ok", "apiError"}]

\* the view models of the workflows for issue #1: the body with and without
\* AB# links, with and without a GitHub token
WorkflowVMs ==
    { [vm EXCEPT !.body = b, !.env.ghToken = t] :
        vm \in EventVMs(<<"web", 1>>),
        b \in {"body", "body AB#1", "body AB#12", "body AB#2"}, t \in {"ghToken", ""} }

\* the target project: empty, holding the work item of issue #1, or holding
\* the work item of issue #2 only
WorkflowTargets ==
    {<<>>} \cup { <<w>> : w \in WorkItemSnapshots }
           \cup { << [w EXCEPT !.title = TitleWithMarker(w.title.text, 2),
                               !.tags = <<"GitHub Issue", "web", "GH-2">>] >> :
                   w \in WorkItemSnapshots }

\* the events the target's bot causes on issue #1
BotVMs == { [vm EXCEPT !.sender_login = BotSender] : vm \in EventVMs(<<"web", 1>>) }

WorkflowArgs ==
    [method : {"handleSingleIssue"}, items : WorkflowTargets, vm : WorkflowVMs \cup BotVMs,
     projectInfo : ProjectInfos, io : CycleIO]
    \cup
    [method : {"bulkRecord"}, items : WorkflowTargets,
     vm : {vm \in WorkflowVMs : vm.action = "opened"},
     projectInfo : ProjectInfos, io : CycleIO]

CreateVMs ==
    { [vm EXCEPT !.labels = ls, !.assignees = as] :
        vm \in {v \in EventVMs(<<"web", 1>>) : v.action = "opened" /\ v.state = "open"},
        ls \in CreateLabelLists, as \in AssigneeLists }

\* parsed project items over five of the configured fields and one standard
\* field
FieldChoices ==
    ("Business Priority" :> {Undefined, "High", "Odd", "constructor"}) @@
    ("Time Estimation"   :> {Undefined, "5", NumberZero}) @@
    ("Start Date"        :> {Undefined, "2024-10-01"}) @@
    ("Product"           :> {Undefined, "Mobile"}) @@
    ("Time Priority"     :> {Undefined, "Soon"}) @@
    ("Status"            :> {Undefined, "Ready"})

\* the object that holds the fields which have a value
FieldsOf(fv) == [n \in {k \in DOMAIN fv : fv[k] # Undefined} |-> fv[n]]

ProjectFields ==
    { NoProjectFields } \cup
    { [present |-> TRUE,
       fields  |-> FieldsOf(("Business Priority" :> bp) @@ ("Time Estimation" :> te) @@
                            ("Start Date" :> sd) @@ ("Product" :> pr) @@
                            ("Time Priority" :> tp) @@ ("Status" :> st))] :
      bp \in FieldChoices["Business Priority"], te \in FieldChoices["Time Estimation"],
      sd \in FieldChoices["Start Date"], pr \in FieldChoices["Product"],
      tp \in FieldChoices["Time Priority"], st \in FieldChoices["Status"] }

CustomFieldArgs ==
    [method : {"mapCustomFields"}, vm : {v \in EventVMs(<<"web", 1>>) : v.action = "opened"},
     projectInfo : ProjectFields, workItemType : {"Epic", "Product Backlog Item", "Bug"}]

\* records that carry a list of comments
CommentLists == {<<>>, <<"c1">>, <<"c1", "c2">>}

CommentVMs ==
    { [vm EXCEPT !.comments = cs] :
        vm \in {v \in EventVMs(<<"web", 1>>) : v.action = "opened"}, cs \in CommentLists }

\* the flags of config.features that createWorkItem reads before the create
\* call, each on or off
CreateFeatureSets ==
    { [config_features EXCEPT !.syncTitle = t, !.syncLabels = l, !.syncComments = c] :
        t \in BOOLEAN, l \in BOOLEAN, c \in BOOLEAN }

CreateArgs ==
    [method : {"createWorkItem"}, features : {config_features},
     items : {<<>>} \cup {<<w>> : w \in WorkItemSnapshots},
     vm : UNION {EventVMs(p) : p \in Pairs}, projectInfo : ProjectInfos,
     io : {"ok", "apiError", "connectThrows"}]
    \cup
    [method : {"createWorkItem"}, features : {config_features}, items : {<<>>},
     vm : CreateVMs, projectInfo : {Null}, io : {"ok"}]
    \cup
    [method : {"createWorkItem"}, features : CreateFeatureSets,
     items : {<<>>} \cup {<<w>> : w \in WorkItemSnapshots},
     vm : CommentVMs, projectInfo : {Null}, io : {"ok", "apiError"}]

SprintStart == [year |-> 2024, month |-> 9, day |-> 13]

\* the days on which the calls run
Nows == { [year |-> 2024, month |-> 11, day |-> 25] }

\* "Sprint 9 dec 28 - jan 10": the end month precedes the start month
TextYearEnd == <<"S", "p", "r", "i", "n", "t", " ", "9", " ", "d", "e", "c", " ", "2", "8",
                 " ", "-", " ", "j", "a", "n", " ", "1", "0">>

\* sprint information whose name is a text of characters: with and without
\* a start date and a duration
SprintDatesArgs ==
    [method : {"createFromSprintInfo"}, sprintName : SprintTexts \cup {TextYearEnd},
     startDate : {NoDate, SprintStart}, duration : {0, 14}, now : Nows]

(***************************************************************************)
(* SpecState: one call of a resolver (a StateMapper instance with its      *)
(* configuration loaded, or find against a target project) with arguments  *)
(* drawn from the sets above                                               *)
(***************************************************************************)
AdoStateArgs ==
    [method : {"getAdoState"}, workItemType : WorkItemTypes, issueState : IssueStates,
     projectName : ProjectNames, projectStatus : ProjectStatuses]

WorkItemTypeArgs ==
    [method : {"getWorkItemType"}, issueTitle : IssueTitles, labels : LabelLists]

InitState ==
    /\ smCall = "pending"
    /\ smCfg \in ConfigIds
    /\ smArgs \in AdoStateArgs \cup WorkItemTypeArgs \cup FindArgs \cup ParseArgs
                 \cup UpdateArgs \cup CreateArgs \cup ActionArgs \cup WorkflowArgs
                 \cup CustomFieldArgs \cup SprintDatesArgs
    /\ smResult = Null
    /\ SyncIdle
    /\ IterIdle

GetAdoStateCall ==
    /\ smCall = "pending"
    /\ smArgs.method = "getAdoState"
    /\ smCall' = "getAdoState"
    /\ smResult' = getAdoState(Config(smCfg), smArgs.workItemType, smArgs.issueState,
                               smArgs.projectName, smArgs.projectStatus)
    /\ UNCHANGED <<smCfg, smArgs>>
    /\ UNCHANGED <<syncVars, itVars>>

GetWorkItemTypeCall ==
    /\ smCall = "pending"
    /\ smArgs.method = "getWorkItemType"
    /\ smCall' = "getWorkItemType"
    /\ smResult' = getWorkItemType(Config(smCfg), smArgs.issueTitle, smArgs.labels)
    /\ UNCHANGED <<smCfg, smArgs>>
    /\ UNCHANGED <<syncVars, itVars>>

FindCall ==
    /\ smCall = "pending"
    /\ smArgs.method = "find"
    /\ smCall' = "find"
    /\ smResult' = find(smArgs.items, smArgs.vm, smArgs.io)
    /\ UNCHANGED <<smCfg, smArgs>>
    /\ UNCHANGED <<syncVars, itVars>>

ParseSprintDatesCall ==
    /\ smCall = "pending"
    /\ smArgs.method = "parseSprintDates"
    /\ smCall' = "parseSprintDates"
    /\ smResult' = parseSprintDates(smArgs.sprintName, smArgs.year)
    /\ UNCHANGED <<smCfg, smArgs>>
    /\ UNCHANGED <<syncVars, itVars>>

UpdateWorkItemCall ==
    /\ smCall = "pending"
    /\ smArgs.method = "updateWorkItem"
    /\ smCall' = "updateWorkItem"
    /\ smResult' = updateWorkItemWith(smArgs.features, <<smArgs.workItem>>, smArgs.vm,
                                      smArgs.workItem, smArgs.projectInfo, smArgs.io)
    /\ UNCHANGED <<smCfg, smArgs>>
    /\ UNCHANGED <<syncVars, itVars>>

CreateWorkItemCall ==
    /\ smCall = "pending"
    /\ smArgs.method = "createWorkItem"
    /\ smCall' = "createWorkItem"
    /\ smResult' = createWorkItemWith(smArgs.features, smArgs.items, smArgs.vm,
                                      smArgs.projectInfo, smArgs.io)
    /\ UNCHANGED <<smCfg, smArgs>>
    /\ UNCHANGED <<syncVars, itVars>>

MapCustomFieldsCall ==
    /\ smCall = "pending"
    /\ smArgs.method = "mapCustomFields"
    /\ smCall' = "mapCustomFields"
    /\ smResult' = mapCustomFields(smArgs.vm, smArgs.projectInfo, smArgs.workItemType)
    /\ UNCHANGED <<smCfg, smArgs>>
    /\ UNCHANGED <<syncVars, itVars>>

HandleActionCall ==
    /\ smCall = "pending"
    /\ smArgs.method = "handleAction"
    /\ smCall' = "handleAction"
    /\ smResult' = handleAction(<<smArgs.workItem>>, smArgs.vm, smArgs.workItem,
                                smArgs.projectInfo, smArgs.io)
    /\ UNCHANGED <<smCfg, smArgs>>
    /\ UNCHANGED <<syncVars, itVars>>

HandleSingleIssueCall ==
    /\ smCall = "pending"
    /\ smArgs.method = "handleSingleIssue"
    /\ smCall' = "handleSingleIssue"
    /\ smResult' = handleSingleIssue(smArgs.items, smArgs.vm, smArgs.projectInfo, smArgs.io)
    /\ UNCHANGED <<smCfg, smArgs>>
    /\ UNCHANGED <<syncVars, itVars>>

BulkRecordCall ==
    /\ smCall = "pending"
    /\ smArgs.method = "bulkRecord"
    /\ smCall' = "bulkRecord"
    /\ smResult' = bulkRecord(smArgs.items, smArgs.vm, smArgs.projectInfo, smArgs.io)
    /\ UNCHANGED <<smCfg, smArgs>>
    /\ UNCHANGED <<syncVars, itVars>>

\* createFromSprintInfo up to its createIteration call: the dates it hands
\* over (parseSprintDates reads the year of the day of the call)
CreateFromSprintInfoDatesCall ==
    /\ smCall = "pending"
    /\ smArgs.method = "createFromSprintInfo"
    /\ smCall' = "createFromSprintInfo"
    /\ smResult' = sprintDates([name |-> "Sprint 1", startDate |-> smArgs.startDate,
                                duration |-> smArgs.duration],
                               parseSprintDates(smArgs.sprintName, smArgs.now.year),
                               smArgs.now)
    /\ UNCHANGED <<smCfg, smArgs>>
    /\ UNCHANGED <<syncVars, itVars>>

NextState ==
    \/ CreateFromSprintInfoDatesCall
    \/ HandleSingleIssueCall
    \/ BulkRecordCall
    \/ HandleActionCall
    \/ MapCustomFieldsCall
    \/ GetAdoStateCall
    \/ GetWorkItemTypeCall
    \/ FindCall
    \/ ParseSprintDatesCall
    \/ UpdateWorkItemCall
    \/ CreateWorkItemCall

SpecState == InitState /\ [][NextState]_vars


(***************************************************************************)
(* SpecIter: one IterationCreator instance over an Azure DevOps project,   *)
(* its methods called one after the other                                  *)
(***************************************************************************)
MaxCalls == 3

SprintNames == {"Sprint 1", "sprint 1", "SPRINT 1", "Sprint 2", ""}

SprintInfos ==
    {NoSprintInfo} \cup
    [name : SprintNames, startDate : {NoDate, SprintStart}, duration : {0, 14}]

\* results of parseSprintDates for a sprint name
Parses ==
    { NoParse,
      [startDate |-> SprintStart, endDate |-> [year |-> 2024, month |-> 9, day |-> 26]] }

\* the iterations of the project before the instance is used
StoreContents ==
    { <<>>,
      << [id |-> 1, name |-> "sprint 1", path |-> <<"project", "sprint 1">>,
          startDate |-> <<2024, 10, 13>>, finishDate |-> <<2024, 10, 26>>] >>,
      << [id |-> 1, name |-> "Sprint 2", path |-> <<"project", "Sprint 2">>,
          startDate |-> NoDateString, finishDate |-> NoDateString] >> }

InitIter ==
    /\ iter = NewIterationCreator
    /\ itStore \in StoreContents
    /\ itPrev = NoCall
    /\ itLast = NoCall
    /\ itCalls = 0
    /\ SyncIdle
    /\ smCall = "pending"
    /\ smCfg = "default"
    /\ smArgs = <<>>
    /\ smResult = Null

\* what the client can do during the next call: getWorkApi is called only
\* while the instance has no connection
CallIO == {io \in IterIO : iter.connection => io.init = "ok"}

CreateFromSprintInfoCall ==
    /\ itCalls < MaxCalls
    /\ \E sprintInfo \in SprintInfos, parsed \in Parses, now \in Nows, io \in CallIO :
        LET r == createFromSprintInfo(iter, itStore, sprintInfo, parsed, now, io) IN
            /\ iter' = r.it
            /\ itStore' = r.store
            /\ itPrev' = itLast
            /\ itLast' = [method |-> "createFromSprintInfo", name |-> sprintInfo.name,
                          result |-> r.result, creates |-> r.creates]
    /\ itCalls' = itCalls + 1
    /\ UNCHANGED <<syncVars, smVars>>

GetIterationCall ==
    /\ itCalls < MaxCalls
    /\ \E iterationName \in SprintNames \ {""}, io \in CallIO :
        iter' = getIteration(iter, itStore, iterationName, io, 1).it
    /\ itCalls' = itCalls + 1
    /\ UNCHANGED <<itStore, itPrev, itLast, syncVars, smVars>>

IterationExistsCall ==
    /\ itCalls < MaxCalls
    /\ \E iterationName \in SprintNames \ {""}, io \in CallIO :
        iter' = iterationExists(iter, itStore, iterationName, io).it
    /\ itCalls' = itCalls + 1
    /\ UNCHANGED <<itStore, itPrev, itLast, syncVars, smVars>>

LoadExistingIterationsCall ==
    /\ itCalls < MaxCalls
    /\ \E io \in CallIO :
        iter' = loadExistingIterations(iter, itStore, io, 1).it
    /\ itCalls' = itCalls + 1
    /\ UNCHANGED <<itStore, itPrev, itLast, syncVars, smVars>>

\* a direct createIteration call, with the dates createFromSprintInfo passes
\* for a sprint that starts on SprintStart and lasts defaultDuration days
\* (itPrev and itLast keep the createFromSprintInfo calls)
CreateIterationCall ==
    /\ itCalls < MaxCalls
    /\ \E iterationName \in SprintNames \ {""}, io \in CallIO :
        LET r == createIteration(iter, itStore, iterationName, SprintStart,
                                 AddDays(SprintStart, defaultDuration), io) IN
            /\ iter' = r.it
            /\ itStore' = r.store
    /\ itCalls' = itCalls + 1
    /\ UNCHANGED <<itPrev, itLast, syncVars, smVars>>

NextIter ==
    \/ CreateFromSprintInfoCall
    \/ CreateIterationCall
    \/ LoadExistingIterationsCall
    \/ GetIterationCall
    \/ IterationExistsCall

SpecIter == InitIter /\ [][NextIter]_vars

(***************************************************************************)
(* Properties of the state resolver                                        *)
(***************************************************************************)
\* the configured tables as the configuration file writes them (own
\* entries only), for the arguments of the last getAdoState call
ArgProjectKey == normProjectName(Config(smCfg), smArgs.projectName)
ArgIssueState == normIssueState(smArgs.issueState)

ProjectConfigured == Own(Config(smCfg).projects, ArgProjectKey)

TypeTableConfigured ==
    /\ ProjectConfigured
    /\ Own(Config(smCfg).projects[ArgProjectKey].statusMappings, smArgs.workItemType)

StateTableConfigured ==
    /\ TypeTableConfigured
    /\ Own(Config(smCfg).projects[ArgProjectKey].statusMappings[smArgs.workItemType],
           ArgIssueState)

ArgStateMap ==
    Config(smCfg).projects[ArgProjectKey].statusMappings[smArgs.workItemType][ArgIssueState]

WildcardConfigured == StateTableConfigured /\ Own(ArgStateMap, "*")

\* the global fallback as the specification words it: the configured
\* unmappedStatusFallback entry if present, else Done for closed, New otherwise
SpecGlobalFallback ==
    IF Own(Config(smCfg).unmappedStatusFallback, ArgIssueState)
    THEN Config(smCfg).unmappedStatusFallback[ArgIssueState]
    ELSE IF ArgIssueState = "closed" THEN "Done" ELSE "New"

\* C5 as stated: with a wildcard entry configured for "closed" of the type
\* and project, getAdoState(type, "closed", project, status) returns the
\* wildcard value for every status, an absent status included.
C5_WildcardAnyStatus ==
    (smCall = "getAdoState" /\ smArgs.issueState = "closed" /\ WildcardConfigured)
        => smResult = ArgStateMap["*"]

\* C5 amended: with a wildcard entry configured for "closed" of the type and
\* project, getAdoState(type, "closed", project, status) returns the wildcard
\* value for every status column that is present (non-empty); with the status
\* absent it returns the global fallback for "closed".
C5_WildcardPresentStatus ==
    (smCall = "getAdoState" /\ smArgs.issueState = "closed" /\ WildcardConfigured)
        => IF Truthy(smArgs.projectStatus)
           THEN smResult = ArgStateMap["*"]
           ELSE smResult = SpecGlobalFallback

\* C5 witness: a closed Bug of project falak in column "In Production", which
\* has an explicit entry ("Released") beside the wildcard ("Closed").
C5_Witness ==
    /\ smCall = "getAdoState"
    /\ smCfg = "fileA"
    /\ smArgs.issueState = "closed"
    /\ smArgs.workItemType = "Bug"
    /\ smArgs.projectName = "falak"
    /\ smArgs.projectStatus = "In Production"
    /\ WildcardConfigured
    /\ smResult = "Closed"

\* C6: when the project has no configured table or the status column is
\* absent, getAdoState returns exactly the global fallback of the lowercased
\* issue state.
C6_FallbackWhenUnconfigured ==
    (smCall = "getAdoState" /\ (~ProjectConfigured \/ ~Truthy(smArgs.projectStatus)))
        => smResult = SpecGlobalFallback

\* C7: with project and status present and a table for the type and state,
\* the result is the first of: wildcard entry, entry of the exact status
\* column, "No status" sentinel entry (either spelling), global fallback.
C7_Precedence ==
    (smCall = "getAdoState" /\ Truthy(smArgs.projectStatus) /\ StateTableConfigured)
        => smResult =
             IF Own(ArgStateMap, "*") THEN ArgStateMap["*"]
             ELSE IF Own(ArgStateMap, smArgs.projectStatus)
                  THEN ArgStateMap[smArgs.projectStatus]
             ELSE IF Own(ArgStateMap, "No status") THEN ArgStateMap["No status"]
             ELSE IF Own(ArgStateMap, "No Status") THEN ArgStateMap["No Status"]
             ELSE SpecGlobalFallback

\* C8: getAdoState never throws and always returns a string.
C8_NeverThrowsReturnsString ==
    smCall = "getAdoState" => smResult \notin NonStrings


(***************************************************************************)
(* Properties of the work item type resolver                               *)
(***************************************************************************)
\* the title starts with the prefix, letters compared without case
StartsWithNoCase(prefix, title) ==
    /\ Len(prefix) <= Len(title)
    /\ \A k \in 1..Len(prefix) : lowerChar(SubSeq(title, 1, Len(prefix))[k]) = lowerChar(prefix[k])

\* the configured prefixes, in order, without the "default" entry
ConfiguredPrefixes ==
    SelectSeq(Config(smCfg).workItemTypeMapping, LAMBDA e : e[1] # Chars_default)

\* the configured default type (the built-in one when none is configured)
ConfiguredDefaultType ==
    LET d == SelectSeq(Config(smCfg).workItemTypeMapping, LAMBDA e : e[1] = Chars_default)
    IN IF Len(d) > 0 THEN d[1][2] ELSE "Product Backlog Item"

\* the labels of the call that have an entry in the label table
LabelsWithEntry ==
    SelectSeq(smArgs.labels, LAMBDA l : toLowerCase(l) \in DOMAIN labelMap)

\* the configured prefixes matching the start of the title
MatchingPrefixes ==
    SelectSeq(ConfiguredPrefixes, LAMBDA e : StartsWithNoCase(e[1], smArgs.issueTitle))

\* C9: getWorkItemType returns the type of the first configured prefix that
\* starts the title, whatever the labels; else the type of the first label
\* that has an entry in the label table; else the configured default type.
C9_TypeResolution ==
    smCall = "getWorkItemType" =>
        smResult = IF Len(MatchingPrefixes) > 0 THEN MatchingPrefixes[1][2]
                   ELSE IF Len(LabelsWithEntry) > 0
                        THEN labelMap[toLowerCase(LabelsWithEntry[1])]
                   ELSE ConfiguredDefaultType

(***************************************************************************)
(* Properties of the identity lookup and of the workflows                  *)
(***************************************************************************)
\* C1: in a cycle of either workflow whose lookup ended in the lookup error
\* (-1), no create call is issued to the target.
C1_LookupErrorNeverCreates ==
    (cycle.mode \in {"single", "bulk"} /\ cycle.find = "error") => ~cycle.createIssued

\* C2: when the previous run for the same (repository, issue number) pair
\* created a work item, this run issues no create and every write it makes
\* is an update addressed to that work item.
C2_SecondRunUpdatesFirst ==
    (cycle.mode \in {"single", "bulk"} /\ cycle.prevCreated # 0)
        => /\ ~cycle.createIssued
           /\ \A k \in 1..Len(cycle.writes) :
                  /\ cycle.writes[k].kind = "update"
                  /\ cycle.writes[k].id = cycle.prevCreated

\* the work items that satisfy the predicate of find for pair p
Matching(p) ==
    {k \in 1..Len(workItems) :
        wiqlMatches(workItems[k], [number |-> p[2], repository |-> p[1]])}

\* C3: de-duplication invariant: for every (repository, issue number) pair
\* at most one work item of the target satisfies the predicate of find.
C3_AtMostOneMatch ==
    \A p \in Pairs : Cardinality(Matching(p)) <= 1

\* the query of the last find call succeeded
FindQuerySucceeded == smArgs.io.connect = "ok" /\ smArgs.io.query = "ok"

\* queryResult.workItems of the last find call
FindQueryResult == queryByWiql(smArgs.items, smArgs.vm)

\* C4: find has exactly three outcomes: not-found (null) if and only if the
\* query succeeded with zero results; the first result of the query when
\* it yields one or more and the work item is fetched; the lookup error
\* (-1) whenever connecting, querying or fetching fails.
C4_FindThreeOutcomes ==
    smCall = "find" =>
        /\ smResult.kind \in {"null", "found", "error"}
        /\ smResult.kind = "null" <=> (FindQuerySucceeded /\ Len(FindQueryResult) = 0)
        /\ (FindQuerySucceeded /\ Len(FindQueryResult) >= 1 /\ smArgs.io.fetch = "ok")
              => (smResult.kind = "found" /\ smResult.workItem = FindQueryResult[1])
        /\ (\/ smArgs.io.connect = "throws"
            \/ smArgs.io.query = "throws"
            \/ (FindQuerySucceeded /\ Len(FindQueryResult) >= 1
                    /\ smArgs.io.fetch = "throws"))
              => smResult.kind = "error"

\* C4 witness: the query yields two work items, the second-created one not
\* among the first, and find returns the first of them.
C4_Witness ==
    /\ smCall = "find"
    /\ Len(smArgs.items) = 3
    /\ Len(FindQueryResult) = 2
    /\ ~wiqlMatches(smArgs.items[1], smArgs.vm)
    /\ smResult.kind = "found"
    /\ smResult.workItem.id = 2

(***************************************************************************)
(* Properties of the iteration resolver                                    *)
(***************************************************************************)
\* the last two createFromSprintInfo calls carried the same non-empty
\* sprint name, letter case ignored
SameSprintTwice ==
    /\ itPrev.method = "createFromSprintInfo"
    /\ itLast.method = "createFromSprintInfo"
    /\ Truthy(itPrev.name)
    /\ Truthy(itLast.name)
    /\ toLowerCase(itPrev.name) = toLowerCase(itLast.name)

SprintKey == toLowerCase(itLast.name)

GrammarMatches(k) == match(smArgs.sprintName, patterns[k]).ok

\* the formatted dates of the last parseSprintDates result
ParsedStart == formatDate(smResult.startDate)
ParsedEnd == formatDate(smResult.endDate)

\* C11: parseSprintDates tries the month-name, the numeric and the ISO
\* grammar in this order and the first that matches decides the result;
\* "Sprint 68 oct 13 - oct 26" and "10/13 - 10/26" with year 2024 and
\* "2024-10-13 to 2024-10-26" give 2024-10-13 and 2024-10-26; a name that
\* matches none of the grammars gives null.
C11_ParseSprintDates ==
    smCall = "parseSprintDates" =>
        /\ (smArgs.sprintName \in {Text01, Text02} /\ smArgs.year = 2024)
              => (ParsedStart = <<2024, 10, 13>> /\ ParsedEnd = <<2024, 10, 26>>)
        /\ smArgs.sprintName = Text03
              => (ParsedStart = <<2024, 10, 13>> /\ ParsedEnd = <<2024, 10, 26>>)
        /\ (\A k \in 1..3 : ~GrammarMatches(k)) => smResult = NoParse
        /\ \A k \in 1..3 :
              (GrammarMatches(k) /\ \A j \in 1..(k - 1) : ~GrammarMatches(j))
                  => smResult = extractDatesFromMatch(
                                    match(smArgs.sprintName, patterns[k]).groups,
                                    smArgs.year)

\* C11 witness: "10/13 - 10/26" in 2024, matched by the numeric grammar only,
\* with the months converted to 0-based ones.
C11_Witness ==
    /\ smCall = "parseSprintDates"
    /\ smArgs.sprintName = Text02
    /\ smArgs.year = 2024
    /\ ~GrammarMatches(1)
    /\ GrammarMatches(2)
    /\ smResult.startDate = [year |-> 2024, month |-> 9, day |-> 13]
    /\ ParsedEnd = <<2024, 10, 26>>

\* the month words and days of a name the month-name grammar matches
MonthGroups == match(smArgs.sprintName, patterns[1]).groups

\* the index of a month word in the table, 0 (January) for a word that is
\* not in it
MonthIndex(word) ==
    IF \E k \in 1..Len(months) : months[k][1] = lowerChars(word)
    THEN months[CHOOSE k \in 1..Len(months) : months[k][1] = lowerChars(word)][2]
    ELSE 0

\* C12: for a name that matches the month-name grammar, parseSprintDates
\* does not return null; each date has the table's index of its month word
\* (any letter case) and index 0, January, for a word that is not in the
\* table.
C12_UnknownMonthIsJanuary ==
    (smCall = "parseSprintDates" /\ GrammarMatches(1)) =>
        /\ smResult # NoParse
        /\ smResult.startDate =
              NewDate(smArgs.year, MonthIndex(MonthGroups[1]), DigitsValue(MonthGroups[2]))
        /\ smResult.endDate =
              NewDate(smArgs.year, MonthIndex(MonthGroups[3]), DigitsValue(MonthGroups[4]))

(***************************************************************************)
(* updateWorkItem: the operations of the patch                             *)
(***************************************************************************)
\* the call under check is updateWorkItem and the connection to the target
\* was obtained
UpdateCalled ==
    /\ smCall = "updateWorkItem"
    /\ smArgs.io # "connectThrows"

\* the patch handed to the target by the call has an operation op on path
Emits(op, path) ==
    \E w \in 1..Len(smResult.writes) :
        \E k \in 1..Len(smResult.writes[w].patch) :
            /\ smResult.writes[w].patch[k].op = op
            /\ smResult.writes[w].patch[k].path = path

ComputedTitle == TitleWithMarker(smArgs.vm.title, smArgs.vm.number)

\* C13: updateWorkItem emits a replace operation for System.Title if and
\* only if title sync is enabled and the computed title
\* "<issue title> (GitHub Issue #<number>)" differs from the work item's
\* current System.Title.
C13_TitleReplaceIffDiffers ==
    UpdateCalled =>
        ( Emits("replace", "/fields/System.Title")
          <=> (smArgs.features.syncTitle /\ smArgs.workItem.title # ComputedTitle) )

\* the same statement for the calls made without project information
C13_WithoutProjectInfo ==
    (UpdateCalled /\ smArgs.projectInfo = Null) =>
        ( Emits("replace", "/fields/System.Title")
          <=> (smArgs.features.syncTitle /\ smArgs.workItem.title # ComputedTitle) )

\* some operation of the patch handed to the target is a replace
EmitsReplace ==
    \E w \in 1..Len(smResult.writes) :
        \E k \in 1..Len(smResult.writes[w].patch) :
            smResult.writes[w].patch[k].op = "replace"

\* the work item's snapshot already holds what the source record computes to
TargetUpToDate ==
    /\ smArgs.workItem.title = ComputedTitle
    /\ smArgs.workItem.description = makeHtml(smArgs.vm.body)

\* C14: updateWorkItem emits a replace operation for the description (and
\* for the state) only when the newly computed value differs from the value
\* in the work item's snapshot; synchronizing a source record whose values
\* equal the target's current ones produces a patch with no replace
\* operation.
C14_ReplaceOnlyWhenChanged ==
    UpdateCalled =>
        /\ ( Emits("replace", "/fields/System.Description")
               => smArgs.workItem.description # makeHtml(smArgs.vm.body) )
        /\ ( TargetUpToDate => ~EmitsReplace )

(***************************************************************************)
(* createWorkItem with project information                                 *)
(***************************************************************************)
\* C19: for a record with no existing target whose ProjectInfo is present,
\* createWorkItem completes and issues the create write (carrying the state
\* that getAdoState resolves); the presence of ProjectInfo never makes the
\* create path fail.
C19_CreateWithProjectInfo ==
    ( /\ smCall = "createWorkItem"
      /\ smArgs.projectInfo # Null
      /\ smArgs.io # "connectThrows" ) =>
        /\ smResult.result # "throws"
        /\ smResult.issued

\* without project information the create write is issued and the created
\* work item carries the state getAdoState resolves without a project
C19_CreateWithoutProjectInfo ==
    ( /\ smCall = "createWorkItem"
      /\ smArgs.projectInfo = Null
      /\ smArgs.io # "connectThrows" ) =>
        /\ smResult.result # "throws"
        /\ smResult.issued
        /\ smArgs.io = "ok" =>
              smResult.workItem.state =
                  getAdoState(getDefaultConfig, smArgs.vm.wit, smArgs.vm.state, Null, Null)

(***************************************************************************)
(* The batch workflow                                                      *)
(***************************************************************************)
\* the issues (not pull requests) of the listing, in the order listed
ListedIssues == SelectSeq(bulk.listing, LAMBDA r : ~r.pull_request)

\* the loop bodies that ended in a failure, in the order run
FailedBodies == SelectSeq(bulk.processed, LAMBDA b : b.ended # "success")

BulkInLoop == bulk.phase \in {"records", "done"}

\* C15: with continue-on-error, every issue (not pull request) returned by
\* the pagination is processed exactly once, in fetch order; a failure
\* (thrown error or failed create) is recorded as (number, title, message)
\* and does not prevent later records; at every point successCount +
\* failCount is the number of records processed and the failure list has
\* failCount entries; at the end the sum is the total.
C15_ContinueOnErrorAccounting ==
    (bulk.continueOnError /\ bulk.phase # "idle") =>
        /\ Len(bulk.processed) <= Len(ListedIssues)
        /\ \A k \in 1..Len(bulk.processed) :
              /\ bulk.processed[k].number = ListedIssues[k].number
              /\ bulk.processed[k].title = ListedIssues[k].title
        /\ bulk.successCount + bulk.failCount = Len(bulk.processed)
        /\ Len(bulk.failedIssues) = bulk.failCount
        /\ Len(FailedBodies) = bulk.failCount
        /\ \A k \in 1..Len(bulk.failedIssues) :
              /\ bulk.failedIssues[k].number = FailedBodies[k].number
              /\ bulk.failedIssues[k].title = FailedBodies[k].title
              /\ bulk.failedIssues[k].error =
                    (IF FailedBodies[k].ended = "failed" THEN "Creation failed"
                     ELSE "error.message")
        /\ Len(bulk.processed) > 0 => BulkInLoop
        /\ bulk.phase = "done" =>
              /\ Len(bulk.processed) = Len(ListedIssues)
              /\ bulk.summary.successful + bulk.summary.failed = bulk.summary.total
              /\ bulk.summary.total = Len(ListedIssues)

\* a run with continue-on-error ended after a failed creation and a thrown
\* error, or after a failure followed by a success
C15_Witness ==
    /\ bulk.continueOnError
    /\ bulk.phase = "done"
    /\ Len(bulk.processed) = 2
    /\ bulk.processed[1].ended # "success"
    /\ bulk.processed[2].ended # bulk.processed[1].ended

\* C16: with continueOnError = false, once any record has failed (by a
\* thrown error or by a create that returned failure), no later record is
\* looked up, created or updated in that run.
C16_HaltOnFirstFailure ==
    ~bulk.continueOnError =>
        \A k \in 1..Len(bulk.processed) :
            bulk.processed[k].ended # "success" => k = Len(bulk.processed)

\* the same for thrown errors alone
C16_HaltOnFirstThrow ==
    ~bulk.continueOnError =>
        /\ \A k \in 1..Len(bulk.processed) :
              bulk.processed[k].ended = "caught" => k = Len(bulk.processed)
        /\ ( Len(bulk.processed) > 0
              /\ bulk.processed[Len(bulk.processed)].ended = "caught" )
             => bulk.phase = "aborted"

\* a batch run is between its checks and its end
BulkRunning == bulk.phase \in {"fetching", "records"}

\* the run returned after the summary block: the counts and, when there are
\* failures, the failure list, written to the log when logFailures is set
SummaryProduced ==
    /\ bulk.phase = "done"
    /\ bulk.summary.printed
    /\ bulk.summary.successful = bulk.successCount
    /\ bulk.summary.failed = bulk.failCount
    /\ bulk.summary.failedIssues = bulk.failedIssues
    /\ errorHandling_logFailures => bulk.summary.logged = bulk.failedIssues

\* C17: every batch run eventually ends by producing the summary (success
\* count, failure count) and, when there are failures, the failure list
\* (persisted when logFailures is set): also the runs where a record fails
\* under halt-on-first-error and the runs where page fetching fails.
C17_EveryRunEndsWithSummary == BulkRunning ~> SummaryProduced

\* every batch run ends: with the summary or with a thrown error
C17_EveryRunEnds == BulkRunning ~> (SummaryProduced \/ bulk.phase = "aborted")

\* a run that has fetched its pages and continues on error ends with the
\* summary
C17_ContinuingRunEndsWithSummary ==
    (bulk.phase = "records" /\ bulk.continueOnError) ~> SummaryProduced

\* this step runs the loop body of a record after an earlier one
LaterRecordStarts ==
    /\ bulk.phase = "records"
    /\ bulk.next > 1
    /\ bulk'.next = bulk.next + 1

\* this step lists a page after an earlier one
LaterPageFetched ==
    /\ bulk.phase = "fetching"
    /\ bulk.page > 1
    /\ bulk' # bulk

\* C20: a rate-limit delay is awaited between every two consecutive records
\* of the batch, whether the earlier record succeeded, failed to create or
\* threw an error, and between every two consecutive page fetches: the
\* lookup of record i+1 never starts without a delay after the end of
\* record i.
C20_DelayBetweenCalls ==
    [][ (LaterRecordStarts \/ LaterPageFetched) => bulk.delayed ]_vars

\* the delay is awaited after a record that succeeded or failed to create,
\* and between page fetches
C20_DelayUnlessThrown ==
    [][ /\ LaterPageFetched => bulk.delayed
        /\ ( LaterRecordStarts /\ bulk.processed[bulk.next - 1].ended # "caught" )
             => bulk.delayed ]_vars

(***************************************************************************)
(* The single-record workflow: the lifecycle action                        *)
(***************************************************************************)
\* the last cycle was an event whose record was not found and was created
CreatedInCycle ==
    /\ cycle.mode = "single"
    /\ cycle.find = "null"
    /\ cycle.created # 0

\* C18: in the single-record workflow the lifecycle action is applied only
\* on the FOUND branch: when the record is not found and is created in this
\* cycle, the cycle issues the create and no further update write against
\* the target for the same event, whatever the event's action.
C18_NoUpdateAfterCreate == CreatedInCycle => cycle.writes = <<>>

\* the update writes of a cycle that created its work item go to that work
\* item, one at most
C18_AfterCreateOneWriteAtMost ==
    CreatedInCycle =>
        /\ Len(cycle.writes) <= 1
        /\ \A k \in 1..Len(cycle.writes) : cycle.writes[k].id = cycle.created

(***************************************************************************)
(* The batch workflow is sequential                                        *)
(***************************************************************************)
\* C21: the batch workflow is strictly sequential: the lookup of a record
\* starts only after every call (lookup, create, update, comment writes,
\* back-reference write) of the previous record has completed, so at no
\* time are two target writes in flight.
C21_BatchIsSequential ==
    /\ bulk.inFlight = 0
    /\ bulk.inFlightAtStart = 0

\* a run ended after two records, the first of which was created and
\* linked back
C21_Witness ==
    /\ bulk.phase = "done"
    /\ Len(bulk.processed) = 2
    /\ bulk.processed[1].ended = "success"
    /\ Len(workItems) >= 1

(***************************************************************************)
(* Pagination                                                              *)
(***************************************************************************)
\* the records of pages 1..last, in order
RECURSIVE RecordsOfPages(_, _)
RecordsOfPages(listing, last) ==
    IF last = 0 THEN <<>>
    ELSE RecordsOfPages(listing, last - 1) \o listForRepo(listing, last)

\* the pagination of the run is over
Fetched == bulk.phase \in {"records", "done"} \/ Len(bulk.processed) > 0

\* fetching stopped at the first page that is empty or shorter than the
\* page size, the list is the issues (not pull requests) of the pages
\* fetched, and no pull request was processed
PaginationResult ==
    Fetched =>
        /\ Len(listForRepo(bulk.listing, bulk.page)) < perPage
        /\ \A q \in 1..(bulk.page - 1) : Len(listForRepo(bulk.listing, q)) = perPage
        /\ bulk.issues = SelectSeq(RecordsOfPages(bulk.listing, bulk.page),
                                   LAMBDA r : ~r.pull_request)
        /\ \A k \in 1..Len(bulk.processed) :
              \A j \in 1..Len(bulk.listing) :
                  bulk.listing[j].number = bulk.processed[k].number
                      => ~bulk.listing[j].pull_request

\* C22: batch pagination terminates for every finite source: fetching stops
\* at the first page that is empty or shorter than the page size (measured
\* before filtering), and the list handed to per-record processing holds
\* exactly the non-pull-request records of the fetched pages, so no
\* pull-request record is ever looked up, created or updated.
C22_PaginationTerminates ==
    /\ []PaginationResult
    /\ (bulk.phase = "fetching") ~> (bulk.phase # "fetching")

\* two pages were fetched, the first one full and holding a pull request
C22_Witness ==
    /\ bulk.phase = "done"
    /\ bulk.page = 2
    /\ \E j \in 1..perPage : bulk.listing[j].pull_request
    /\ Len(bulk.processed) = Len(bulk.listing) - 1
    /\ Len(bulk.processed) > 0

(***************************************************************************)
(* History entries                                                         *)
(***************************************************************************)
HistoryPath == "/fields/System.History"

\* the positions of the history operations of a patch
HistoryOps(patch) == { k \in 1..Len(patch) : patch[k].path = HistoryPath }

\* C23: every patch built by updateWorkItem holds exactly one history
\* entry, an "add" on System.History as the last operation, even when no
\* field differs; history is never the target of a replace or remove
\* operation in any update path (update, close, reopen, comment).
C23_HistoryAppendOnly ==
    /\ smCall = "updateWorkItem" =>
          \A w \in 1..Len(smResult.writes) :
              /\ HistoryOps(smResult.writes[w].patch) = {Len(smResult.writes[w].patch)}
              /\ smResult.writes[w].patch[Len(smResult.writes[w].patch)].op = "add"
    /\ smCall \in {"updateWorkItem", "handleAction"} =>
          \A w \in 1..Len(smResult.writes) :
              \A k \in HistoryOps(smResult.writes[w].patch) :
                  smResult.writes[w].patch[k].op = "add"

\* updateWorkItem was called for a work item that is up to date, with the
\* description left alone: the patch is the history entry
C23_Witness ==
    /\ smCall = "updateWorkItem"
    /\ TargetUpToDate
    /\ ~smArgs.features.syncDescription
    /\ Len(smResult.writes) = 1
    /\ Len(smResult.writes[1].patch) = 1

(***************************************************************************)
(* The back-reference marker                                               *)
(***************************************************************************)
\* the call under check ran one record through a workflow
WorkflowCalled == smCall \in {"handleSingleIssue", "bulkRecord"}

\* every AB# link written is the one of the work item created in this
\* cycle, with a GitHub token, into a body that does not carry it
LinkedAfterCreate ==
    \A k \in 1..Len(smResult.sourceWrites) :
        /\ smResult.summary.created # 0
        /\ smResult.sourceWrites[k].marker = smResult.summary.created
        /\ smResult.sourceWrites[k].number = smArgs.vm.number
        /\ Truthy(smArgs.vm.env.ghToken)
        /\ smResult.summary.created \notin MarkersIn(smArgs.vm.body)

\* C24: the back-reference marker "AB#<work item id>" is written into the
\* source record only after a create that succeeded and only when a GitHub
\* token is available; it is never written after a failed create or a
\* failed lookup, and it is not written again when the body already carries
\* the marker for that work item id.
C24_BackReferenceOnlyAfterCreate ==
    WorkflowCalled =>
        /\ LinkedAfterCreate
        /\ smResult.summary.find = "error" => smResult.sourceWrites = <<>>
        /\ smResult.summary.outcome = "failed" => smResult.sourceWrites = <<>>

\* the same in the single-record workflow
C24_SingleRecord ==
    smCall = "handleSingleIssue" =>
        /\ LinkedAfterCreate
        /\ smResult.summary.find = "error" => smResult.sourceWrites = <<>>
        /\ smResult.summary.outcome = "failed" => smResult.sourceWrites = <<>>

\* the same in the batch workflow, but for the records whose lookup failed
C24_BatchAfterLookup ==
    smCall = "bulkRecord" =>
        /\ LinkedAfterCreate
        /\ smResult.summary.outcome = "failed" => smResult.sourceWrites = <<>>

(***************************************************************************)
(* C25: tags and priority of a create patch                                *)
(***************************************************************************)
TagsPath     == "/fields/System.Tags"
PriorityPath == "/fields/Microsoft.VSTS.Common.Priority"

\* label is a key of the priority-label table
IsPriorityLabel(label) == label \in DOMAIN labels_priorityLabels

\* the tags and the priority operation the table prescribes for a record
TagsAndPriorityByTable(vm, patch) ==
    LET priorityLabels == SelectSeq(vm.labels, IsPriorityLabel)
    IN  /\ HasPath(patch, TagsPath)
        /\ PatchValue(patch, TagsPath) =
               <<"GitHub Issue", vm.repo_name, GhTag(vm.number)>> \o
               SelectSeq(vm.labels, LAMBDA l : ~IsPriorityLabel(l))
        /\ IF priorityLabels = <<>>
           THEN ~HasPath(patch, PriorityPath)
           ELSE /\ Cardinality({k \in 1..Len(patch) : patch[k].path = PriorityPath}) = 1
                /\ PatchValue(patch, PriorityPath) = labels_priorityLabels[priorityLabels[1]]

CreateIssued == smCall = "createWorkItem" /\ smResult.issued

\* C25: the tags of a create patch are 'GitHub Issue', the repository name,
\* 'GH-<number>' and then every label that is not in the priority-label
\* table, in order; the priority operation carries the table value of the
\* first priority label and is absent when no label is a priority label
C25_CreateTagsAndPriority ==
    CreateIssued => TagsAndPriorityByTable(smArgs.vm, smResult.patch)

\* the same for records none of whose labels is the name of a property every
\* object inherits
C25_OwnLabelsOnly ==
    (CreateIssued /\ \A k \in 1..Len(smArgs.vm.labels) : smArgs.vm.labels[k] \notin ProtoKeys)
        => TagsAndPriorityByTable(smArgs.vm, smResult.patch)

(***************************************************************************)
(* C26: custom-field mapping                                               *)
(***************************************************************************)
MappingEntries == {customFields_mappings[k] : k \in 1..Len(customFields_mappings)}

\* the operations of a patch on the target field of a mapping
OpsOn(patch, adoField) ==
    SelectSeq(patch, LAMBDA o : o.path = FieldPath(adoField))

\* the value the claim prescribes for a field with a target field
Translated(mapping, raw) ==
    IF mapping.hasMapping /\ raw \in DOMAIN mapping.mapping
    THEN mapping.mapping[raw] ELSE raw

\* what the claim prescribes for one configured field that has a value
FieldMappedAsConfigured(entry, projectInfo, workItemType, patches) ==
    LET mapping == entry[2]
        raw     == projectInfo.fields[entry[1]]
    IN  IF mapping.restricted /\ workItemType \notin mapping.workItemTypes
        THEN mapping.adoField # Null => OpsOn(patches, mapping.adoField) = <<>>
        ELSE IF mapping.adoField # Null
        THEN OpsOn(patches, mapping.adoField) =
                 << Op("add", FieldPath(mapping.adoField), Translated(mapping, raw)) >>
        ELSE IF mapping.fallback = "tag"
        THEN \E k \in 1..Len(patches) :
                 patches[k].path = TagsPath /\ InSeq(raw, patches[k].value)
        ELSE IF mapping.fallback = "comment"
        THEN <<entry[1], raw>> \in formatCustomFieldsComment(projectInfo)
        ELSE TRUE

CustomFieldsMapped == smCall = "mapCustomFields" /\ smArgs.projectInfo.present

\* C26: every configured custom field present in the project information is
\* mapped as configured: no operation outside its work-item types, one
\* operation with the translated (or raw) value on its target field, and
\* without a target field a merge into the tags (fallback 'tag') or a line
\* of the comment (fallback 'comment')
C26_CustomFieldsAsConfigured ==
    CustomFieldsMapped =>
        \A entry \in MappingEntries :
            entry[1] \in DOMAIN smArgs.projectInfo.fields =>
                FieldMappedAsConfigured(entry, smArgs.projectInfo, smArgs.workItemType,
                                        smResult)

\* the same for the fields that have a target field or the comment fallback,
\* with values that are neither the number 0 nor an inherited property name
C26_TargetFieldsAndComments ==
    CustomFieldsMapped =>
        \A entry \in MappingEntries :
            ( /\ entry[1] \in DOMAIN smArgs.projectInfo.fields
              /\ smArgs.projectInfo.fields[entry[1]] \notin ProtoKeys \cup {NumberZero}
              /\ (entry[2].adoField # Null \/ entry[2].fallback # "tag") ) =>
                FieldMappedAsConfigured(entry, smArgs.projectInfo, smArgs.workItemType,
                                        smResult)

(***************************************************************************)
(* C27: the assignee                                                       *)
(***************************************************************************)
AssignedToPath == "/fields/System.AssignedTo"

\* the assignee has a target identity in the user map, looked up by the
\* lowercased login
IsMapped(login) ==
    /\ toLowerCase(login) \in DOMAIN userMapping
    /\ userMapping[toLowerCase(login)] # ""

\* the target identity of the first mapped assignee (at least one is mapped)
FirstMappedIdentity(assignees) ==
    userMapping[toLowerCase(SelectSeq(assignees, IsMapped)[1])]

NoneMapped(assignees) == SelectSeq(assignees, IsMapped) = <<>>

AssigneeOps(patch) == SelectSeq(patch, LAMBDA o : o.path = AssignedToPath)

AssignEventHandled == smCall = "handleAction" /\ smArgs.vm.action \in AssignActions

\* C27: the create patch carries the identity of the first mapped assignee
\* and no assignee operation when none is mapped; updateAssignee replaces
\* with that identity, removes when the record has no assignees and writes
\* nothing when assignees exist but none is mapped
C27_AssigneeIsFirstMapped ==
    /\ CreateIssued =>
          AssigneeOps(smResult.patch) =
              IF NoneMapped(smArgs.vm.assignees) THEN <<>>
              ELSE << Op("add", AssignedToPath, FirstMappedIdentity(smArgs.vm.assignees)) >>
    /\ (AssignEventHandled /\ smArgs.io # "connectThrows") =>
          IF smArgs.vm.assignees = <<>>
          THEN /\ Len(smResult.writes) = 1
               /\ smResult.writes[1].id = smArgs.workItem.id
               /\ smResult.writes[1].patch = << Op("remove", AssignedToPath, Null) >>
          ELSE IF NoneMapped(smArgs.vm.assignees)
          THEN smResult.writes = <<>>
          ELSE /\ Len(smResult.writes) = 1
               /\ smResult.writes[1].id = smArgs.workItem.id
               /\ smResult.writes[1].patch =
                      << Op("replace", AssignedToPath,
                            FirstMappedIdentity(smArgs.vm.assignees)) >>

\* a create patch and an assignment event whose first assignee is unmapped
\* and whose second assignee is mapped under another letter case
C27_Witness ==
    /\ \/ CreateIssued /\ AssigneeOps(smResult.patch) # <<>>
       \/ AssignEventHandled /\ Len(smResult.writes) = 1
    /\ smArgs.vm.assignees = <<"bob", "Alice">>

(***************************************************************************)
(* C28: the iteration cache                                                *)
(***************************************************************************)
\* every entry that holds an iteration is stored under the lowercased name
\* of that iteration, so no two entries hold the same normalized name
CacheKeysNormalized ==
    \A k \in DOMAIN iter.existingIterations :
        /\ k = toLowerCase(k)
        /\ (iter.existingIterations[k].has /\ iter.existingIterations[k].value # NoIteration)
              => toLowerCase(iter.existingIterations[k].value.name) = k

\* a call leaves every entry of the cache as it is
CacheEntriesKept ==
    \A k \in DOMAIN iter.existingIterations :
        iter.existingIterations[k].has =>
            iter'.existingIterations[k] = iter.existingIterations[k]

\* C28: every cache key is a lowercased name, the cache holds at most one
\* iteration per normalized name, and no call removes or replaces an entry:
\* the cache only grows
C28_CacheOnlyGrows == [](CacheKeysNormalized) /\ [][CacheEntriesKept]_vars

\* the cache holds an entry inserted by a create after a failed list, and a
\* later call has loaded the iterations of the project
C28_Witness ==
    /\ iter.cacheLoaded
    /\ iter.listCalls >= 2
    /\ itCalls >= 2
    /\ \E k \in CacheKeys :
          /\ iter.existingIterations[k].has
          /\ iter.existingIterations[k].value.id = Len(itStore)
          /\ Len(itStore) >= 2

(***************************************************************************)
(* C29: the list operation of the iteration store                          *)
(***************************************************************************)
\* C29 as stated: getTeamIterations is invoked at most once on an instance,
\* whatever the calls and whether or not it fails
C29_ListAtMostOnce == iter.listCalls <= 1

\* C29 amended: once the cache is loaded (a list call succeeded) no call
\* invokes getTeamIterations again, so the list operation succeeds at most
\* once; while it has not succeeded every call invokes it again, at most
\* twice in one call
C29_NoListAfterSuccess ==
    [][ /\ iter.cacheLoaded => (iter'.listCalls = iter.listCalls /\ iter'.cacheLoaded)
        /\ iter'.listCalls <= iter.listCalls + 2
        /\ (~iter.cacheLoaded /\ iter'.cacheLoaded) => iter'.listCalls > iter.listCalls ]_vars

\* a list call failed, a later one succeeded and a call was made after that
C29_Witness ==
    /\ iter.cacheLoaded
    /\ iter.listCalls = 2
    /\ itCalls = 3

(***************************************************************************)
(* C30: events sent by the bot of the target                               *)
(***************************************************************************)
BotEventHandled == smCall = "handleSingleIssue" /\ smArgs.vm.sender_login = BotSender

\* C30: an event whose sender is 'azure-boards[bot]' causes no lookup, no
\* create, no update, no project-info fetch and no back-reference write:
\* no call is made to either system and the target is left as it was
C30_BotEventsIgnored ==
    BotEventHandled =>
        /\ smResult.calls = <<>>
        /\ smResult.sourceWrites = <<>>
        /\ smResult.summary.find = "none"
        /\ ~smResult.summary.createIssued
        /\ smResult.summary.writes = <<>>
        /\ smResult.items = smArgs.items

\* the bot closed an issue whose work item exists, with a token for the
\* source and project information available
C30_Witness ==
    /\ BotEventHandled
    /\ smArgs.vm.action = "closed"
    /\ smArgs.items # <<>>
    /\ Truthy(smArgs.vm.env.ghToken)
    /\ smArgs.projectInfo # Null
    /\ smResult.summary.outcome = "skipped"


(***************************************************************************)
(* C31: writes after a failed create                                       *)
(***************************************************************************)
CreateFailed ==
    /\ smCall = "createWorkItem"
    /\ smResult.result = "error"

\* C31: when the create write of a record fails, createWorkItem returns the
\* failure value and issues no further write against the target for that
\* record: no comment is synced
C31_NoWriteAfterFailedCreate ==
    CreateFailed => smResult.writes = <<>>

\* the same for the records that carry no comments or when comment sync is
\* switched off
C31_NoWriteWithoutComments ==
    CreateFailed /\ (smArgs.vm.comments = <<>> \/ ~smArgs.features.syncComments)
        => smResult.writes = <<>>


(***************************************************************************)
(* C32: what the batch counts as a success                                 *)
(***************************************************************************)
\* the counters after the loop body of the record that was run
RecordCounted ==
    countRecord(bulk, [number |-> smArgs.vm.number, title |-> smArgs.vm.title],
                smResult.ended)

BulkRecordRan == smCall = "bulkRecord"

\* C32: a record is counted in successCount only if its target write
\* (create or update) succeeded; a record whose update write failed is
\* counted as a failure and appears in the failure list
C32_SuccessOnlyAfterWrite ==
    BulkRecordRan =>
        /\ RecordCounted.successCount = bulk.successCount + 1 => smResult.write = "ok"
        /\ smResult.write # "ok" =>
              /\ RecordCounted.failCount = bulk.failCount + 1
              /\ Len(RecordCounted.failedIssues) = Len(bulk.failedIssues) + 1

\* the same for the records that were created
C32_CreatedRecords ==
    BulkRecordRan /\ smResult.summary.writes = <<>> =>
        /\ RecordCounted.successCount = bulk.successCount + 1 => smResult.write = "ok"
        /\ smResult.write # "ok" =>
              /\ RecordCounted.failCount = bulk.failCount + 1
              /\ Len(RecordCounted.failedIssues) = Len(bulk.failedIssues) + 1


(***************************************************************************)
(* C33: a created work item is found by the lookup of its record           *)
(***************************************************************************)
CreateSucceeded ==
    /\ smCall = "createWorkItem"
    /\ smResult.result = "ok"

\* C33: under every feature-flag configuration a work item created by
\* createWorkItem for a record satisfies the find() predicate of that
\* record, so that a later lookup finds it
C33_CreatedItemIsFound ==
    CreateSucceeded =>
        /\ wiqlMatches(smResult.workItem, smArgs.vm)
        /\ find(smResult.items, smArgs.vm, FindOk).kind = "found"

\* the same under the configurations that keep syncTitle and syncLabels on
C33_WithTitleAndLabels ==
    CreateSucceeded /\ smArgs.features.syncTitle /\ smArgs.features.syncLabels =>
        /\ wiqlMatches(smResult.workItem, smArgs.vm)
        /\ find(smResult.items, smArgs.vm, FindOk).kind = "found"


(***************************************************************************)
(* C34: lifecycle actions and the lookup predicate                         *)
(***************************************************************************)
LifecycleActions ==
    {"edited", "labeled", "unlabeled", "closed", "reopened", "created"} \cup AssignActions

\* handleAction ran for a lifecycle event of a work item that its record's
\* lookup finds
LifecycleHandled ==
    /\ smCall = "handleAction"
    /\ smArgs.vm.action \in LifecycleActions
    /\ wiqlMatches(smArgs.workItem, smArgs.vm)

\* C34: no lifecycle action changes whether the work item satisfies the
\* find() predicate of its record: afterwards the title still carries the
\* marker of the issue number and the tags still contain 'GitHub Issue' and
\* the repository name
C34_LookupPredicateKept ==
    LifecycleHandled =>
        /\ smResult.items[1].title.number = smArgs.vm.number
        /\ InSeq("GitHub Issue", smResult.items[1].tags)
        /\ InSeq(smArgs.vm.repository, smResult.items[1].tags)

\* the same for every event but the removal of a label
C34_KeptUnlessUnlabeled ==
    LifecycleHandled /\ smArgs.vm.action # "unlabeled" =>
        wiqlMatches(smResult.items[1], smArgs.vm)

(***************************************************************************)
(* C35: label sync and the tag list                                        *)
(***************************************************************************)
LabelHandled(action) ==
    /\ smCall = "handleAction"
    /\ smArgs.vm.action = action
    /\ smArgs.io = "ok"

\* the tag list without the whole tag l
WithoutTag(tags, l) == SelectSeq(tags, LAMBDA t : t # l)

\* the work item after an unlabeled event for the label of the event that
\* was handled
AfterUnlabel ==
    handleAction(smResult.items, [smArgs.vm EXCEPT !.action = "unlabeled"],
                 smResult.items[1], Null, "ok").items[1]

\* C35: after a labeled event for L the tags contain L as a whole tag, and
\* no write is issued only when L is already a whole tag; after an
\* unlabeled event for L the tags are the previous tags without the tag L;
\* a labeled event followed by an unlabeled event for the same L restores
\* the original tags
C35_TagListExact ==
    /\ LabelHandled("labeled") =>
            /\ InSeq(smArgs.vm.label, smResult.items[1].tags)
            /\ smResult.writes = <<>> => InSeq(smArgs.vm.label, smArgs.workItem.tags)
            /\ ~InSeq(smArgs.vm.label, smArgs.workItem.tags) =>
                    AfterUnlabel.tags = smArgs.workItem.tags
    /\ LabelHandled("unlabeled") =>
            smResult.items[1].tags = WithoutTag(smArgs.workItem.tags, smArgs.vm.label)

\* the removal of a label is exact
C35_UnlabelExact ==
    LabelHandled("unlabeled") =>
        smResult.items[1].tags = WithoutTag(smArgs.workItem.tags, smArgs.vm.label)

\* the same for a label whose text occurs nowhere in the joined tags
C35_FreshLabelAdded ==
    LabelHandled("labeled")
    /\ ~includes(tagsString(smArgs.workItem.tags), TagText[smArgs.vm.label]) =>
        /\ smResult.items[1].tags = Append(smArgs.workItem.tags, smArgs.vm.label)
        /\ AfterUnlabel.tags = smArgs.workItem.tags


(***************************************************************************)
(* C36: one operation per field path in a create patch                     *)
(***************************************************************************)
RelationsPath == "/relations/-"

\* the positions of the operations of patch on path
PositionsOf(patch, path) == { k \in 1..Len(patch) : patch[k].path = path }

DateLeq(a, b) ==
    /\ a # InvalidDate
    /\ b # InvalidDate
    /\ \/ a.year < b.year
       \/ a.year = b.year /\ a.month < b.month
       \/ a.year = b.year /\ a.month = b.month /\ a.day <= b.day

SprintDatesComputed == smCall = "createFromSprintInfo"

ParsedFromName == parseSprintDates(smArgs.sprintName, smArgs.now.year)

\* C37: every iteration handed to createIteration has a start and a finish
\* date with start <= finish: start + duration when both are given, the
\* parsed pair when the dates come from the name, now and now +
\* defaultDuration otherwise; also when a start date comes without a
\* duration and when the parsed end month precedes the start month
C37_StartAndFinish ==
    SprintDatesComputed =>
        /\ smResult.startDate # NoDate
        /\ smResult.endDate # NoDate
        /\ DateLeq(smResult.startDate, smResult.endDate)
        /\ (smArgs.startDate # NoDate /\ smArgs.duration # 0) =>
                smResult = Dates(smArgs.startDate, AddDays(smArgs.startDate, smArgs.duration))
        /\ (smArgs.startDate = NoDate /\ ParsedFromName # NoParse) =>
                smResult = ParsedFromName
        /\ (smArgs.startDate = NoDate /\ ParsedFromName = NoParse) =>
                smResult = Dates(smArgs.now, AddDays(smArgs.now, defaultDuration))

\* the three sources of the dates, as claimed
C37_DateSources ==
    SprintDatesComputed =>
        /\ (smArgs.startDate # NoDate /\ smArgs.duration # 0) =>
                /\ smResult = Dates(smArgs.startDate,
                                    AddDays(smArgs.startDate, smArgs.duration))
                /\ DateLeq(smResult.startDate, smResult.endDate)
        /\ (smArgs.startDate = NoDate /\ ParsedFromName # NoParse) =>
                smResult = ParsedFromName
        /\ (smArgs.startDate = NoDate /\ ParsedFromName = NoParse) =>
                /\ smResult = Dates(smArgs.now, AddDays(smArgs.now, defaultDuration))
                /\ DateLeq(smResult.startDate, smResult.endDate)

\* start and finish are present and ordered when a start date comes with a
\* duration or when no start date is given and the name carries none
C37_OrderedUnlessParsedOrOpen ==
    SprintDatesComputed
    /\ ~(smArgs.startDate # NoDate /\ smArgs.duration = 0)
    /\ ~(smArgs.startDate = NoDate /\ ParsedFromName # NoParse) =>
        /\ smResult.endDate # NoDate
        /\ DateLeq(smResult.startDate, smResult.endDate)


(***************************************************************************)
(* C38: creates for names the iteration store already holds                *)
(***************************************************************************)
\* the step is a createFromSprintInfo call whose record differs from the
\* one before
SprintCallStep ==
    /\ itCalls' = itCalls + 1
    /\ itPrev' = itLast
    /\ itLast'.method = "createFromSprintInfo"
    /\ <<itPrev', itLast'>> # <<itPrev, itLast>>

\* C38: createIteration never issues a create to the iteration store for a
\* name that (letter case ignored) already exists in the store, also when
\* the load of the existing iterations failed
C38_NoCreateForExistingName ==
    [][ SprintCallStep =>
            (itLast'.creates > 0 => ~StoreHolds(itStore, itLast'.name)) ]_vars

\* the same for the calls after which the cache is loaded
C38_NoCreateWhenLoaded ==
    [][ (SprintCallStep /\ iter'.cacheLoaded) =>
            (itLast'.creates > 0 => ~StoreHolds(itStore, itLast'.name)) ]_vars

\* no create patch carries an operation on System.IterationPath: with
\* project information createWorkItem ends before handleIteration is called
IterationPath == "/fields/System.IterationPath"

C38_NoIterationPathInPatch ==
    smCall = "createWorkItem" => PositionsOf(smResult.patch, IterationPath) = {}

====
